---------------------------- MODULE Spec2Model ----------------------------
(***************************************************************************)
(* A model of crates/markdown/src/markdown.rs: the Markdown view (source,  *)
(* single-flight background parse, selection) and the mouse listeners of   *)
(* MarkdownElement working on the RenderedText of the last layout pass.    *)
(***************************************************************************)
EXTENDS Integers, Sequences, FiniteSets, TLC

\* ------------------------------------------------------------------ bounds
\* Longest source text explored.
MaxSourceLen == 3
\* Longest text passed to one append.
MaxAppendLen == 1
\* Task handles are drawn from 1..MaxTaskIds.
MaxTaskIds == 3
\* The count of mutations issued while a task is in flight stops here.
MaxMuts == 2

Alphabet == {"a", "b"}

StringsUpTo(n) == UNION {[1..k -> Alphabet] : k \in 0..n}

SourceTexts == StringsUpTo(MaxSourceLen)

AppendTexts == StringsUpTo(MaxAppendLen)

TaskIds == 1..MaxTaskIds

\* ------------------------------------------------------------ option values
\* Option<T>: None is the empty sequence, Some(v) the one-element sequence.
None == <<>>

Some(v) == <<v>>

\* ------------------------------------------------------------------- state
VARIABLES
    source,             \* Markdown.source
    selection,          \* Markdown.selection
    pressed_link,       \* Markdown.pressed_link
    autoscroll_request, \* Markdown.autoscroll_request
    parsed_markdown,    \* Markdown.parsed_markdown
    should_reparse,     \* Markdown.should_reparse
    pending_parse,      \* Markdown.pending_parse: None or Some(task handle)
    tasks,              \* the executor: task handle -> [text, state]
    listeners,          \* None, or Some(RenderedText) the mouse listeners of the last paint hold
    last_op,            \* history: the operation that produced the current state
    muts,               \* history: the mutations issued since the task in flight was spawned
    call,               \* history: the inputs (and result) of the operation applied last
    gesture,            \* history: the presses and drags since the previous release
    builder,            \* the MarkdownElementBuilder of the layout pass under way
    cursor              \* the events of the document the layout pass has consumed

vars == <<source, selection, pressed_link, autoscroll_request, parsed_markdown,
          should_reparse, pending_parse, tasks, listeners,
          last_op, muts, call, gesture, builder, cursor>>

\* No operation with recorded inputs has been applied.
NoCall == [fn |-> "none"]

\* Nothing has happened since the previous release: no selection was
\* anchored, no link pressed, no text pressed, no drag made.
NoGesture == [anchor |-> None, link |-> None, text_press |-> FALSE,
              dragged |-> FALSE]

\* Selection::default()
DefaultSelection == [start |-> 0, end |-> 0, reversed |-> FALSE, pending |-> FALSE]

\* The external parser (parse_markdown or parse_links_only, fixed at
\* construction), an opaque function of the text.
ParseEvents(text) == <<"events", text>>

\* ParsedMarkdown::default()
DefaultParsedMarkdown == [source |-> <<>>, events |-> <<>>]

\* The value the background closure of Markdown::parse produces.
ParsedMarkdownOf(text) == [source |-> text, events |-> ParseEvents(text)]

\* The Markdown struct together with the executor's tasks, as one value, so
\* that a method is an operator from the value before to the value after.
Self ==
    [source |-> source, selection |-> selection, pressed_link |-> pressed_link,
     autoscroll_request |-> autoscroll_request,
     parsed_markdown |-> parsed_markdown, should_reparse |-> should_reparse,
     pending_parse |-> pending_parse, tasks |-> tasks, panicked |-> FALSE]

\* The tasks that are spawned and neither completed nor cancelled.
AliveTasks(ts) == {id \in DOMAIN ts : ts[id].state = "running"}

\* The history count after the operation `op`: a mutation that finds a task
\* in flight adds one, a spawn or a completion starts again from zero.
MutationsAfter(op) ==
    CASE op = "append" ->
             IF AliveTasks(tasks) = {} THEN 0
             ELSE IF muts < MaxMuts THEN muts + 1 ELSE MaxMuts
      [] op \in {"reset", "parsed"} -> 0
      [] OTHER -> muts

CommitWith(m, op, c, g) ==
    \* the value of m is computed once
    \E after \in {m} :
        /\ source' = after.source
        /\ selection' = after.selection
        /\ pressed_link' = after.pressed_link
        /\ autoscroll_request' = after.autoscroll_request
        /\ parsed_markdown' = after.parsed_markdown
        /\ should_reparse' = after.should_reparse
        /\ pending_parse' = after.pending_parse
        /\ tasks' = after.tasks
        /\ listeners' = listeners
        /\ last_op' = IF after.panicked THEN "panic" ELSE op
        /\ muts' = MutationsAfter(op)
        /\ call' = c
        /\ gesture' = g
        /\ builder' = builder
        /\ cursor' = cursor

\* An operation whose inputs are not recorded.
Commit(m, op) == CommitWith(m, op, call, gesture)

\* ---------------------------------------------------------------- executor
Without(f, id) == [i \in DOMAIN f \ {id} |-> f[i]]

With(f, id, v) == [i \in DOMAIN f \cup {id} |-> IF i = id THEN v ELSE f[i]]

\* Dropping a Task handle cancels the task: it is never polled again.
DropTask(m, handle) ==
    IF handle = None THEN m
    ELSE [m EXCEPT !.tasks = Without(m.tasks, handle[1])]

\* An assignment to the pending_parse field drops the value it held.
SetPendingParse(m, handle) ==
    [DropTask(m, m.pending_parse) EXCEPT !.pending_parse = handle]

\* A handle no task of the executor has.
NextTaskId(m) ==
    CHOOSE id \in TaskIds \ DOMAIN m.tasks :
        \A other \in TaskIds \ DOMAIN m.tasks : id <= other

\* cx.background_executor().spawn + cx.spawn: one task over a copy of the source.
SpawnParse(m) ==
    LET id == NextTaskId(m)
        task == [text |-> m.source, state |-> "running"]
        m1 == [m EXCEPT !.tasks = With(m.tasks, id, task)]
        m2 == [m1 EXCEPT !.should_reparse = FALSE]
    IN  SetPendingParse(m2, Some(id))

\* Markdown::parse without the check of pending_parse: every request spawns.
parse_unguarded(m) == IF m.source = <<>> THEN m ELSE SpawnParse(m)

\* Markdown::parse that returns on a pending parse without setting
\* should_reparse.
parse_forgetful(m) ==
    IF m.source = <<>> \/ m.pending_parse # None THEN m ELSE SpawnParse(m)

\* Markdown::parse
parse(m) ==
    IF m.source = <<>> THEN m
    ELSE IF m.pending_parse # None THEN [m EXCEPT !.should_reparse = TRUE]
    ELSE SpawnParse(m)

\* Markdown::append that also drops the selection.
append_deselecting(m, text) ==
    parse([m EXCEPT !.source = m.source \o text,
                    !.selection = DefaultSelection])

\* Markdown::append
append(m, text) == parse([m EXCEPT !.source = m.source \o text])

\* Markdown::reset that detaches the pending task instead of dropping it.
reset_detaching(m, text) ==
    IF text = m.source THEN m
    ELSE parse([m EXCEPT !.source = text,
                         !.selection = DefaultSelection,
                         !.autoscroll_request = None,
                         !.pending_parse = None,
                         !.should_reparse = FALSE,
                         !.parsed_markdown = DefaultParsedMarkdown])

\* Markdown::reset that keeps the parsed document.
reset_keeping_document(m, text) ==
    IF text = m.source THEN m
    ELSE parse([SetPendingParse([m EXCEPT !.source = text,
                                          !.selection = DefaultSelection,
                                          !.autoscroll_request = None], None)
                    EXCEPT !.should_reparse = FALSE])

\* Markdown::reset without the early return on an equal text.
reset_unconditional(m, text) ==
    parse([SetPendingParse([m EXCEPT !.source = text,
                                     !.selection = DefaultSelection,
                                     !.autoscroll_request = None], None)
               EXCEPT !.should_reparse = FALSE,
                      !.parsed_markdown = DefaultParsedMarkdown])

\* Markdown::reset
reset(m, text) ==
    IF text = m.source THEN m
    ELSE LET m1 == [m EXCEPT !.source = text,
                             !.selection = DefaultSelection,
                             !.autoscroll_request = None]
             m2 == SetPendingParse(m1, None)
             m3 == [m2 EXCEPT !.should_reparse = FALSE,
                              !.parsed_markdown = DefaultParsedMarkdown]
         IN  parse(m3)

\* The update closure without this.pending_parse.take().
on_parsed_keeping_handle(m, id) ==
    LET parsed == ParsedMarkdownOf(m.tasks[id].text)
        m1 == [m EXCEPT !.parsed_markdown = parsed]
        m3 == IF m1.should_reparse THEN parse(m1) ELSE m1
    IN  [m3 EXCEPT !.tasks = Without(m3.tasks, id),
                   !.pending_parse = IF @ = Some(id) THEN None ELSE @]

\* The update closure installing a parse of the live source.
on_parsed_live_source(m, id) ==
    LET m1 == [m EXCEPT !.parsed_markdown = ParsedMarkdownOf(m.source)]
        m2 == [SetPendingParse(m1, None) EXCEPT
                   !.tasks = With(@, id, m.tasks[id])]
        m3 == IF m2.should_reparse THEN parse(m2) ELSE m2
    IN  [m3 EXCEPT !.tasks = Without(m3.tasks, id)]

\* The closure run by this.update when the background parse returned Ok.
on_parsed(m, id) ==
    LET parsed == ParsedMarkdownOf(m.tasks[id].text)
        m1 == [m EXCEPT !.parsed_markdown = parsed]
        \* this.pending_parse.take(); the running task itself lives on to the
        \* end of the closure even when the handle taken was its own
        m2 == [SetPendingParse(m1, None) EXCEPT
                   !.tasks = With(@, id, m.tasks[id])]
        m3 == IF m2.should_reparse THEN parse(m2) ELSE m2
    IN  \* the task has run to its end
        [m3 EXCEPT !.tasks = Without(m3.tasks, id)]

\* `parsed.await?` with an Err: the async block returns early, log_err logs
\* it, and the update closure never runs.
on_parse_error(m, id) == [m EXCEPT !.tasks[id].state = "failed"]

\* --------------------------------------------------------------- selection
\* Selection::tail
tail(sel) == IF sel.reversed THEN sel.end ELSE sel.start

\* Selection::set_head that moves the end without the direction logic.
set_head_naive(sel, head) == [sel EXCEPT !.end = head]

\* Selection::set_head that flips the direction without collapsing the
\* selection onto the anchor first.
set_head_no_collapse(sel, head) ==
    IF head < tail(sel)
    THEN [sel EXCEPT !.start = head, !.reversed = TRUE]
    ELSE [sel EXCEPT !.end = head, !.reversed = FALSE]

\* Selection::set_head
set_head(sel, head) ==
    IF head < tail(sel)
    THEN LET s1 == IF ~sel.reversed
                   THEN [sel EXCEPT !.end = sel.start, !.reversed = TRUE]
                   ELSE sel
         IN  [s1 EXCEPT !.start = head]
    ELSE LET s1 == IF sel.reversed
                   THEN [sel EXCEPT !.start = sel.end, !.reversed = FALSE]
                   ELSE sel
         IN  [s1 EXCEPT !.end = head]

\* ------------------------------------------------------------ rendered text
\* Ord::min and Ord::max
Min(a, b) == IF a < b THEN a ELSE b

Max(a, b) == IF a < b THEN b ELSE a

\* A value that stands for a panic of the Rust code (an index underflow or
\* an out-of-range slice); offsets are naturals, so -1 is free.
Panicked == 0 - 1

\* Result<usize, usize>
Ok(ix) == [ok |-> TRUE, ix |-> ix]

Err(ix) == [ok |-> FALSE, ix |-> ix]

\* A source range start..end.
Range(start, end) == [start |-> start, end |-> end]

\* slice::binary_search_by_key over the keys of a mapping table (0-based).
binary_search_by_key(keys, key) ==
    IF \E i \in 1..Len(keys) : keys[i] = key
    THEN Ok((CHOOSE i \in 1..Len(keys) : keys[i] = key) - 1)
    ELSE Err(Cardinality({i \in 1..Len(keys) : keys[i] < key}))

\* The entry the two lookups of RenderedLine pick: the found one, or the one
\* before the insertion point; ix - 1 underflows when the point is 0.
MappingFor(found) ==
    IF found.ok THEN found.ix + 1
    ELSE IF found.ix = 0 THEN Panicked ELSE found.ix

KeysOf(mappings, field) == [i \in 1..Len(mappings) |-> mappings[i][field]]

\* RenderedLine::rendered_index_for_source_index
rendered_index_for_source_index(line, source_index) ==
    LET at == MappingFor(binary_search_by_key(
                  KeysOf(line.source_mappings, "source_index"), source_index))
    IN  IF at = Panicked THEN Panicked
        ELSE line.source_mappings[at].rendered_index
                 + (source_index - line.source_mappings[at].source_index)

\* A lookup that takes the rendered index for the source index.
source_index_unmapped(line, rendered_index) == rendered_index

\* RenderedLine::source_index_for_rendered_index
source_index_for_rendered_index(line, rendered_index) ==
    LET at == MappingFor(binary_search_by_key(
                  KeysOf(line.source_mappings, "rendered_index"), rendered_index))
    IN  IF at = Panicked THEN Panicked
        ELSE line.source_mappings[at].source_index
                 + (rendered_index - line.source_mappings[at].rendered_index)

\* TextLayout::index_for_position of the text layout service: glyphs are one
\* unit wide and a line is one row from its top to its bottom.
index_for_position(line, position) ==
    IF position.y < line.top THEN Err(0)
    ELSE IF position.y > line.bottom THEN Err(Len(line.text))
    ELSE IF position.x > Len(line.text) THEN Err(Len(line.text))
    ELSE Ok(position.x)

\* RenderedLine::source_index_for_position
line_source_index_for_position(line, position) ==
    LET found == index_for_position(line, position)
        source_index == source_index_for_rendered_index(line, found.ix)
    IN  [ok |-> found.ok, ix |-> source_index]

\* RenderedText::source_index_for_position: the loop over the lines from
\* line i on.
RECURSIVE SourceIndexFrom(_, _, _)
SourceIndexFrom(text, i, position) ==
    IF i > Len(text.lines)
    THEN Err(IF Len(text.lines) = 0 THEN 0
             ELSE text.lines[Len(text.lines)].source_end)
    ELSE IF position.y > text.lines[i].bottom
    THEN IF i < Len(text.lines) /\ position.y < text.lines[i + 1].top
         THEN Err(text.lines[i].source_end)
         ELSE SourceIndexFrom(text, i + 1, position)
    ELSE line_source_index_for_position(text.lines[i], position)

\* A lookup that takes a point between two lines for a point of the line
\* below it.
source_index_in_next_line(text, position) ==
    LET at == {i \in 1..Len(text.lines) : position.y <= text.lines[i].bottom}
    IN  IF at = {}
        THEN Err(IF Len(text.lines) = 0 THEN 0
                 ELSE text.lines[Len(text.lines)].source_end)
        ELSE line_source_index_for_position(
                 text.lines[CHOOSE i \in at : \A j \in at : i <= j], position)

\* RenderedText::source_index_for_position
source_index_for_position(text, position) == SourceIndexFrom(text, 1, position)

\* The first line the loops of surrounding_word_range and
\* surrounding_line_range do not skip, 0 when they skip every line.
OwningLine(text, source_index) ==
    LET at == {i \in 1..Len(text.lines) : source_index <= text.lines[i].source_end}
    IN  IF at = {} THEN 0 ELSE CHOOSE i \in at : \A j \in at : i <= j

\* str::rfind(' ') on text[0..upto], as a 0-based index, or -1.
RFindSpace(text, upto) ==
    LET at == {i \in 1..upto : text[i] = " "}
    IN  IF at = {} THEN 0 - 1 ELSE (CHOOSE i \in at : \A j \in at : j <= i) - 1

\* str::find(' ') on text[from..], as a 0-based index into that slice, or -1.
FindSpace(text, from) ==
    LET at == {i \in (from + 1)..Len(text) : text[i] = " "}
    IN  IF at = {} THEN 0 - 1
        ELSE (CHOOSE i \in at : \A j \in at : i <= j) - 1 - from

\* RenderedText::surrounding_word_range
surrounding_word_range(text, source_index) ==
    LET at == OwningLine(text, source_index) IN
    IF at = 0 THEN Range(source_index, source_index)
    ELSE
    LET line == text.lines[at]
        line_rendered_start == line.source_mappings[1].rendered_index
        rendered == rendered_index_for_source_index(line, source_index)
        rendered_index_in_line == rendered - line_rendered_start
    IN  IF rendered = Panicked \/ rendered_index_in_line < 0
           \/ rendered_index_in_line > Len(line.text)
        THEN Range(Panicked, Panicked)
        ELSE
        LET before == RFindSpace(line.text, rendered_index_in_line)
            previous_space == IF before >= 0 THEN before + 1 ELSE 0
            after == FindSpace(line.text, rendered_index_in_line)
            next_space == IF after >= 0 THEN rendered_index_in_line + after
                          ELSE Len(line.text)
            start == source_index_for_rendered_index(
                         line, line_rendered_start + previous_space)
            end == source_index_for_rendered_index(
                       line, line_rendered_start + next_space)
        IN  IF start = Panicked \/ end = Panicked
            THEN Range(Panicked, Panicked)
            ELSE Range(start, end)

\* RenderedText::surrounding_line_range
surrounding_line_range(text, source_index) ==
    LET at == OwningLine(text, source_index) IN
    IF at = 0 THEN Range(source_index, source_index)
    ELSE Range(text.lines[at].source_mappings[1].source_index,
               text.lines[at].source_end)

\* Range::contains
RangeContains(range, ix) == range.start <= ix /\ ix < range.end

\* RenderedText::link_for_position: Some(link) or None.
link_for_position(text, position) ==
    LET found == source_index_for_position(text, position)
        at == {i \in 1..Len(text.links) :
                   RangeContains(text.links[i].source_range, found.ix)}
    IN  IF ~found.ok \/ at = {} THEN None
        ELSE Some(text.links[CHOOSE i \in at : \A j \in at : i <= j])

\* [String]::join
RECURSIVE Join(_, _)
Join(strings, separator) ==
    IF strings = <<>> THEN <<>>
    ELSE IF Len(strings) = 1 THEN strings[1]
    ELSE strings[1] \o separator \o Join(Tail(strings), separator)

\* The first mapped source index of a line.
LineSourceStart(line) == line.source_mappings[1].source_index

\* The 1-based indices of the lines whose source extent, from the first
\* mapped source index to source_end, has an offset in common with `range`.
LinesInRange(text, range) ==
    {i \in 1..Len(text.lines) :
        /\ range.start <= text.lines[i].source_end
        /\ LineSourceStart(text.lines[i]) <= range.end}

\* RenderedText::text_for_range: the loop over the lines from line i on,
\* with `ret` the strings pushed so far; a slice with start > end panics.
RECURSIVE TextForRangeFrom(_, _, _, _)
TextForRangeFrom(text, i, range, ret) ==
    IF i > Len(text.lines) THEN [ok |-> TRUE, text |-> Join(ret, <<"\n">>)]
    ELSE
    LET line == text.lines[i]
        line_source_start == LineSourceStart(line)
    IN  IF range.start > line.source_end
        THEN TextForRangeFrom(text, i + 1, range, ret)
        ELSE IF range.end < line_source_start
        THEN [ok |-> TRUE, text |-> Join(ret, <<"\n">>)]
        ELSE
        LET start == IF range.start < line_source_start THEN 0
                     ELSE rendered_index_for_source_index(line, range.start)
            mapped == IF range.end > line.source_end
                      THEN rendered_index_for_source_index(line, line.source_end)
                      ELSE rendered_index_for_source_index(line, range.end)
            end == Min(mapped, Len(line.text))
        IN  IF start = Panicked \/ mapped = Panicked \/ start > end
            THEN [ok |-> FALSE, text |-> <<>>]
            ELSE TextForRangeFrom(text, i + 1, range,
                                  Append(ret, SubSeq(line.text, start + 1, end)))

\* RenderedText::text_for_range; ok is FALSE when it panics.
text_for_range(text, range) == TextForRangeFrom(text, 1, range, <<>>)

\* --------------------------------------------------------- mouse listeners
\* A panic inside a listener ends the process: nothing of the state is kept.
Panic(m) == [m EXCEPT !.panicked = TRUE]

\* A press inside that puts a caret at the offset whatever the click count.
press_inside_caret(m, text, event) ==
    LET link == link_for_position(text, event.position)
        source_index == source_index_for_position(text, event.position).ix
    IN  IF link # None THEN [m EXCEPT !.pressed_link = link]
        ELSE [m EXCEPT !.selection =
                  [start |-> source_index, end |-> source_index,
                   reversed |-> FALSE, pending |-> TRUE]]

\* The MouseDownEvent listener, hitbox hovered, bubble phase.
press_inside(m, text, event) ==
    LET link == link_for_position(text, event.position)
        found == source_index_for_position(text, event.position)
        source_index == found.ix
        range == IF event.click_count = 2
                 THEN surrounding_word_range(text, source_index)
                 ELSE IF event.click_count = 3
                 THEN surrounding_line_range(text, source_index)
                 ELSE Range(source_index, source_index)
    IN  IF source_index = Panicked THEN Panic(m)
        ELSE IF link # None THEN [m EXCEPT !.pressed_link = link]
        ELSE IF range.start = Panicked THEN Panic(m)
        ELSE [m EXCEPT !.selection =
                  [start |-> range.start, end |-> range.end,
                   reversed |-> FALSE, pending |-> TRUE]]

\* A press outside that keeps the selection and drops the pressed link only.
press_outside_keeping_selection(m) == [m EXCEPT !.pressed_link = None]

\* The MouseDownEvent listener, hitbox not hovered, capture phase.
press_outside(m) ==
    [m EXCEPT !.selection = DefaultSelection, !.pressed_link = None]

\* The MouseDownEvent listener of paint_mouse_listeners, for one phase.
mouse_down(m, text, hovered, event, phase) ==
    IF hovered
    THEN IF phase = "bubble" THEN press_inside(m, text, event) ELSE m
    ELSE IF phase = "capture" THEN press_outside(m) ELSE m

\* The MouseMoveEvent listener, for one phase.
mouse_move(m, text, event, phase) ==
    IF phase = "capture" THEN m
    ELSE IF m.selection.pending
    THEN LET source_index == source_index_for_position(text, event.position).ix
         IN  IF source_index = Panicked THEN Panic(m)
             ELSE [m EXCEPT !.selection = set_head(m.selection, source_index),
                            !.autoscroll_request = Some(source_index)]
    ELSE m

\* Whether the MouseUpEvent listener opens the pressed link's URL.
opens_url(m, text, event, phase) ==
    /\ phase = "bubble"
    /\ m.pressed_link # None
    /\ m.pressed_link = link_for_position(text, event.position)

\* A MouseUpEvent listener that leaves the drag in progress.
mouse_up_keeping_drag(m, text, event, phase) ==
    IF phase = "bubble" /\ m.pressed_link # None
    THEN [m EXCEPT !.pressed_link = None]
    ELSE m

\* The MouseUpEvent listener, for one phase.
mouse_up(m, text, event, phase) ==
    IF phase = "bubble"
    THEN IF m.pressed_link # None
         THEN IF source_index_for_position(text, event.position).ix = Panicked
              THEN Panic(m)
              ELSE [m EXCEPT !.pressed_link = None]
         ELSE m
    ELSE IF m.selection.pending
    THEN \* a build for Linux or FreeBSD copies the selected text to the
         \* primary clipboard, which no state of the model holds
         IF event.primary
            /\ ~text_for_range(text, Range(m.selection.start,
                                           m.selection.end)).ok
         THEN Panic(m)
         ELSE [m EXCEPT !.selection.pending = FALSE]
    ELSE m

\* ------------------------------------------------------ rendered documents
SourceMapping(rendered_index, source_index) ==
    [rendered_index |-> rendered_index, source_index |-> source_index]

\* What a layout pass renders when the document has no events.
EmptyRenderedText == [lines |-> <<>>, links |-> <<>>]

\* What a layout pass renders for the document "a [b](u)": one paragraph
\* "a b" whose "b" is a link.
LinkRenderedText ==
    [lines |-> <<
        [text |-> <<"a", " ", "b">>,
         source_mappings |-> <<SourceMapping(0, 0), SourceMapping(2, 3)>>,
         source_end |-> 4, top |-> 1, bottom |-> 1] >>,
     links |-> <<[source_range |-> Range(2, 8), destination_url |-> "u"]>>]

\* The RenderedText a layout pass can build from a parsed document: nothing
\* from the default document; the parser being external, any of the
\* rendered documents from another one.
RenderedTextsOf(parsed) ==
    IF parsed.events = <<>> THEN {EmptyRenderedText}
    ELSE {EmptyRenderedText, LinkRenderedText}

\* Pointer positions: the area of the rendered line of LinkRenderedText and
\* one unit beyond it on each axis.
Positions ==
    LET line == LinkRenderedText.lines[1]
    IN  [x : 0..(Len(line.text) + 1), y : 0..(line.bottom + 1)]

Origin == [x |-> 0, y |-> 0]

Phases == <<"capture", "bubble">>

\* ----------------------------------------------------------------- actions
\* Markdown::new / Markdown::new_text with a source text among `texts`.
Construct(texts) ==
    \E text \in texts :
        LET m0 == [source |-> text, selection |-> DefaultSelection,
                   pressed_link |-> None, autoscroll_request |-> None,
                   parsed_markdown |-> DefaultParsedMarkdown,
                   should_reparse |-> FALSE, pending_parse |-> None,
                   tasks |-> <<>>, panicked |-> FALSE]
            m == parse(m0)
        IN  /\ source = m.source
            /\ selection = m.selection
            /\ pressed_link = m.pressed_link
            /\ autoscroll_request = m.autoscroll_request
            /\ parsed_markdown = m.parsed_markdown
            /\ should_reparse = m.should_reparse
            /\ pending_parse = m.pending_parse
            /\ tasks = m.tasks
            /\ listeners = None
            /\ last_op = "new"
            /\ muts = 0
            /\ call = NoCall
            /\ gesture = NoGesture
            /\ builder = None
            /\ cursor = 0

\* A call of Markdown::append with a text among `texts`, as long as the
\* source stays among `sources`.
AppendFrom(texts, sources) ==
    /\ last_op # "panic"
    /\ \E text \in texts :
           /\ source \o text \in sources
           /\ Commit(append(Self, text), "append")

\* A call of Markdown::reset with a text among `texts`.
ResetTo(texts) ==
    /\ last_op # "panic"
    /\ \E text \in texts :
           Commit(reset(Self, text),
                  IF text = source THEN "reset_same" ELSE "reset")

Init == Construct(SourceTexts)

AppendOp == AppendFrom(AppendTexts, SourceTexts)

ResetOp == ResetTo(SourceTexts)

\* A parse task's background parse returns Ok and its update closure runs.
ParseComplete ==
    /\ last_op # "panic"
    /\ \E id \in AliveTasks(tasks) : Commit(on_parsed(Self, id), "parsed")

\* A parse task's background parse returns Err.
ParseError ==
    /\ last_op # "panic"
    /\ \E id \in AliveTasks(tasks) :
           Commit(on_parse_error(Self, id), "parse_error")

\* A paint of the element with one of `texts` as the rendered text: the
\* listeners of the frame capture it, and autoscroll takes the request.
PaintFrom(texts) ==
    /\ last_op # "panic"
    /\ \E text \in texts :
           /\ listeners' = Some(text)
           /\ autoscroll_request' = None
           /\ last_op' = "paint"
    /\ UNCHANGED <<source, selection, pressed_link, parsed_markdown,
                   should_reparse, pending_parse, tasks, muts, call, gesture,
                   builder, cursor>>

\* A paint after a layout pass over the parsed document.
Paint == PaintFrom(RenderedTextsOf(parsed_markdown))

\* The history after a press inside the element: a press on a link records
\* it and starts counting drags afresh, another press is a press on text.
GestureAfterPress(text, position) ==
    LET link == link_for_position(text, position)
    IN  IF link # None
        THEN [gesture EXCEPT !.link = link, !.dragged = FALSE]
        ELSE [gesture EXCEPT !.text_press = TRUE]

\* A mouse press at one of `positions`, dispatched to the listener in the
\* capture phase and then in the bubble phase. The listener reads the
\* position and the click count only when the hitbox is hovered. With
\* `track` the history of the gesture is kept.
MouseDownAt(positions, track) ==
    /\ last_op # "panic"
    /\ listeners # None
    /\ \E hovered \in BOOLEAN :
       \E position \in IF hovered THEN positions ELSE {Origin} :
       \E click_count \in IF hovered THEN 1..3 ELSE {1} :
           LET event == [position |-> position, click_count |-> click_count]
               m1 == mouse_down(Self, listeners[1], hovered, event, Phases[1])
               m2 == mouse_down(m1, listeners[1], hovered, event, Phases[2])
           IN  CommitWith(m2,
                          IF hovered THEN "mouse_down" ELSE "mouse_down_out",
                          call,
                          IF track /\ hovered
                          THEN GestureAfterPress(listeners[1], position)
                          ELSE gesture)

\* A pointer move to one of `positions`, dispatched in both phases. The
\* listener resolves the position only while a drag is in progress.
MouseMoveAt(positions, track) ==
    /\ last_op # "panic"
    /\ listeners # None
    /\ \E position \in IF selection.pending THEN positions ELSE {Origin} :
           LET event == [position |-> position]
               m1 == mouse_move(Self, listeners[1], event, Phases[1])
               m2 == mouse_move(m1, listeners[1], event, Phases[2])
           IN  CommitWith(m2,
                          IF selection.pending THEN "drag" ELSE "mouse_move",
                          call,
                          IF track /\ selection.pending
                          THEN [gesture EXCEPT !.dragged = TRUE]
                          ELSE gesture)

\* A mouse release at one of `positions`, dispatched in both phases. The
\* listener resolves the position only when a link was pressed, and reads
\* the selected text, in a build with a primary clipboard, only when a drag
\* is in progress.
MouseUpAt(positions, track) ==
    /\ last_op # "panic"
    /\ listeners # None
    /\ \E position \in IF pressed_link # None THEN positions ELSE {Origin} :
       \E primary \in IF selection.pending THEN BOOLEAN ELSE {FALSE} :
           LET event == [position |-> position, primary |-> primary]
               m1 == mouse_up(Self, listeners[1], event, Phases[1])
               m2 == mouse_up(m1, listeners[1], event, Phases[2])
           IN  CommitWith(m2,
                          IF opens_url(m1, listeners[1], event, Phases[2])
                          THEN "open_url" ELSE "mouse_up",
                          call,
                          IF track THEN NoGesture ELSE gesture)

MouseDown == MouseDownAt(Positions, FALSE)

MouseMove == MouseMoveAt(Positions, FALSE)

MouseUp == MouseUpAt(Positions, FALSE)

\* The document-mutation surface and the parse tasks.
Next ==
    \/ AppendOp
    \/ ResetOp
    \/ ParseComplete
    \/ ParseError

\* The texts of the specification with the mouse listeners: the empty text
\* and one other text; the scheduler's own cases are those of Spec.
UiTexts == {<<>>, <<"a">>}

UiInit == Construct(UiTexts)

UiAppend == AppendFrom(UiTexts, UiTexts)

UiReset == ResetTo(UiTexts)

\* The view with its element painted and receiving mouse events.
UiNext ==
    \/ UiAppend
    \/ UiReset
    \/ ParseComplete
    \/ ParseError
    \/ Paint
    \/ MouseDown
    \/ MouseMove
    \/ MouseUp

Spec == Init /\ [][Next]_vars

UiSpec == UiInit /\ [][UiNext]_vars

\* The scheduler when no background parse fails.
LiveNext ==
    \/ AppendOp
    \/ ResetOp
    \/ ParseComplete

\* The executor runs every task it holds: a spawned parse that is not
\* cancelled completes.
LiveSpec == Init /\ [][LiveNext]_vars /\ WF_vars(ParseComplete)

\* ------------------------------------------------- Selection on its own
\* The largest source offset of the selections.
MaxOffset == 15

Offsets == 0..MaxOffset

\* The selections with start <= end, in either direction, pending or not.
Selections ==
    {sel \in [start : Offsets, end : Offsets,
              reversed : BOOLEAN, pending : BOOLEAN] : sel.start <= sel.end}

\* A Markdown without text, with the selection `sel`, before any paint.
Detached(sel) ==
    /\ source = <<>>
    /\ selection = sel
    /\ pressed_link = None
    /\ autoscroll_request = None
    /\ parsed_markdown = DefaultParsedMarkdown
    /\ should_reparse = FALSE
    /\ pending_parse = None
    /\ tasks = <<>>
    /\ listeners = None
    /\ muts = 0
    /\ cursor = 0

\* Any selection; the anchor is recorded when it is zero-width and not
\* reversed, as a press with click count 1 leaves it.
SelInit ==
    \E sel \in Selections :
        /\ Detached(sel)
        /\ builder = None
        /\ last_op = "new"
        /\ call = NoCall
        /\ gesture = [NoGesture EXCEPT !.anchor =
                          IF sel.start = sel.end /\ ~sel.reversed
                          THEN Some(sel.start) ELSE None]

\* A call of Selection::set_head with any offset.
SetHead ==
    \E head \in Offsets :
        CommitWith([Self EXCEPT !.selection = set_head(selection, head)],
                   "set_head",
                   [fn |-> "set_head", head |-> head, before |-> selection],
                   gesture)

SelNext == SetHead

SelSpec == SelInit /\ [][SelNext]_vars

\* ------------------------------------------------ the listeners on their own
\* What a layout pass renders for the document "ab b", two blank lines and
\* "a": two paragraphs, rendered two units apart.
TwoLineRenderedText ==
    [lines |-> <<
        [text |-> <<"a", "b", " ", "b">>,
         source_mappings |-> <<SourceMapping(0, 0)>>,
         source_end |-> 4, top |-> 1, bottom |-> 1],
        [text |-> <<"a">>,
         source_mappings |-> <<SourceMapping(0, 6)>>,
         source_end |-> 7, top |-> 3, bottom |-> 3] >>,
     links |-> <<>>]

\* What a layout pass renders for the document "a **b**": one paragraph
\* "a b", the markers of the emphasis not being rendered.
BoldRenderedText ==
    [lines |-> <<
        [text |-> <<"a", " ", "b">>,
         source_mappings |-> <<SourceMapping(0, 0), SourceMapping(2, 4)>>,
         source_end |-> 5, top |-> 1, bottom |-> 1] >>,
     links |-> <<>>]

MouseTexts ==
    {EmptyRenderedText, LinkRenderedText, TwoLineRenderedText,
     BoldRenderedText}

\* Pointer positions: the area of the rendered lines of TwoLineRenderedText
\* and one unit beyond it on each axis.
MousePositions ==
    LET lines == TwoLineRenderedText.lines
    IN  [x : 0..(Len(lines[1].text) + 1), y : 0..(lines[2].bottom + 1)]

MouseInit ==
    /\ Detached(DefaultSelection)
    /\ builder = None
    /\ last_op = "new"
    /\ call = NoCall
    /\ gesture = NoGesture

MousePaint == PaintFrom(MouseTexts)

Press == MouseDownAt(MousePositions, TRUE)

Move == MouseMoveAt(MousePositions, TRUE)

Release == MouseUpAt(MousePositions, TRUE)

MouseNext ==
    \/ MousePaint
    \/ Press
    \/ Move
    \/ Release

MouseSpec == MouseInit /\ [][MouseNext]_vars

\* ------------------------------------------------------- the element builder
\* The most calls of push_text in one layout pass.
MaxPushes == 2

\* The most source bytes that are not rendered before a pushed text: block
\* and emphasis markers, link destinations, blank lines.
MaxGap == 2

\* The texts of the leaf events: a word with its space, and a letter.
ChunkTexts == {<<"a", " ">>, <<"b">>}

\* The elements of a set of numbers in increasing order.
RECURSIVE Sorted(_)
Sorted(set) ==
    IF set = {} THEN <<>>
    ELSE LET least == CHOOSE i \in set : \A j \in set : i <= j
         IN  <<least>> \o Sorted(set \ {least})

\* PendingLine::default()
DefaultPendingLine == [text |-> <<>>, runs |-> <<>>, source_mappings |-> <<>>]

\* A div: its style by name, the margin refinement push_div makes, and its
\* children in order.
Div(style) ==
    [kind |-> "div", style |-> style,
     margin |-> [top |-> None, bottom |-> None], children |-> <<>>]

\* div().child(label): a div with a string as its first child.
DivWithLabel(style, label) ==
    [Div(style) EXCEPT !.children = <<[kind |-> "label", text |-> label]>>]

\* StyledText::new(text).with_runs(runs) as a child of a div.
StyledText(text, runs) == [kind |-> "text", text |-> text, runs |-> runs]

\* MarkdownElementBuilder::new
NewBuilder ==
    [div_stack |-> <<Div("inner")>>,
     rendered_lines |-> <<>>, pending_line |-> DefaultPendingLine,
     rendered_links |-> <<>>, current_source_index |-> 0,
     text_style_stack |-> <<>>, code_block_stack |-> <<>>,
     list_stack |-> <<>>, panicked |-> FALSE]

\* Vec::pop
Pop(stack) == IF stack = <<>> THEN stack ELSE SubSeq(stack, 1, Len(stack) - 1)

\* Option::unwrap of None, an index out of bounds, an integer underflow.
BuilderPanic(b) == [b EXCEPT !.panicked = TRUE]

\* MarkdownElementBuilder::push_text_style
push_text_style(b, style) == [b EXCEPT !.text_style_stack = Append(@, style)]

\* MarkdownElementBuilder::pop_text_style
pop_text_style(b) == [b EXCEPT !.text_style_stack = Pop(@)]

\* MarkdownElementBuilder::text_style: the base style refined by the stack.
text_style(b) == b.text_style_stack

\* TextStyle::to_run
to_run(style, len) == [len |-> len, style |-> style]

\* Language::highlight_text of the language of a code block: the ranges it
\* highlights, in order; here the stretches of letters.
highlight_text(text) ==
    LET IsLetter(i) == text[i + 1] \in Alphabet
        starts == {i \in 0..(Len(text) - 1) :
                      IsLetter(i) /\ (i = 0 \/ ~IsLetter(i - 1))}
        EndOf(start) ==
            CHOOSE j \in (start + 1)..Len(text) :
                /\ \A k \in start..(j - 1) : IsLetter(k)
                /\ j = Len(text) \/ ~IsLetter(j)
        ordered == Sorted(starts)
    IN  [k \in 1..Len(ordered) |-> Range(ordered[k], EndOf(ordered[k]))]

\* The loop of push_text over the highlighted ranges from the i-th on.
RECURSIVE HighlightRuns(_, _, _, _, _)
HighlightRuns(b, ranges, i, offset, runs) ==
    IF i > Len(ranges) THEN [runs |-> runs, offset |-> offset]
    ELSE LET range == ranges[i]
             before == IF range.start > offset
                       THEN Append(runs, to_run(text_style(b),
                                                range.start - offset))
                       ELSE runs
             highlighted == to_run(Append(text_style(b), "highlight"),
                                   range.end - range.start)
         IN  HighlightRuns(b, ranges, i + 1, range.end,
                           Append(before, highlighted))

\* The runs push_text adds for a text.
RunsOf(b, text) ==
    IF b.code_block_stack # <<>>
           /\ b.code_block_stack[Len(b.code_block_stack)] # None
    THEN LET done == HighlightRuns(b, highlight_text(text), 1, 0, <<>>)
         IN  IF done.offset < Len(text)
             THEN Append(done.runs,
                         to_run(text_style(b), Len(text) - done.offset))
             ELSE done.runs
    ELSE <<to_run(text_style(b), Len(text))>>

\* A push_text that takes the builder's own source index for the one of
\* the event.
push_text_at_cursor(b, text, source_index) ==
    [b EXCEPT !.pending_line.source_mappings =
                  Append(@, SourceMapping(Len(b.pending_line.text),
                                          b.current_source_index)),
              !.pending_line.text = @ \o text,
              !.pending_line.runs = @ \o <<to_run(text_style(b), Len(text))>>,
              !.current_source_index = b.current_source_index + Len(text)]

\* MarkdownElementBuilder::push_text
push_text(b, text, source_index) ==
    [b EXCEPT !.pending_line.source_mappings =
                  Append(@, SourceMapping(Len(b.pending_line.text),
                                          source_index)),
              !.pending_line.text = @ \o text,
              !.pending_line.runs = @ \o RunsOf(b, text),
              !.current_source_index = source_index + Len(text)]

\* A trim that leaves the builder's source index where it was.
trim_keeping_source_index(b) ==
    LET text == b.pending_line.text
        runs == b.pending_line.runs
    IN  IF text # <<>> /\ text[Len(text)] = "\n" /\ runs # <<>>
        THEN [b EXCEPT !.pending_line.text = Pop(text),
                       !.pending_line.runs[Len(runs)].len = @ - 1]
        ELSE b

\* MarkdownElementBuilder::trim_trailing_newline
trim_trailing_newline(b) ==
    LET text == b.pending_line.text
        runs == b.pending_line.runs
    IN  IF text # <<>> /\ text[Len(text)] = "\n"
        THEN IF runs = <<>> \/ runs[Len(runs)].len = 0
             THEN BuilderPanic(b)
             ELSE [b EXCEPT !.pending_line.text = Pop(text),
                            !.pending_line.runs[Len(runs)].len = @ - 1,
                            !.current_source_index = @ - 1]
        ELSE b

\* A flush that empties the pending line and keeps nothing of it.
flush_text_discarding(b) == [b EXCEPT !.pending_line = DefaultPendingLine]

\* A flush without the early return on an empty text.
flush_text_unconditional(b) ==
    IF b.div_stack = <<>> THEN BuilderPanic(b)
    ELSE LET row == 2 * (Len(b.rendered_lines) + 1) - 1
         IN  [b EXCEPT !.pending_line = DefaultPendingLine,
                       !.rendered_lines =
                           Append(@, [text |-> b.pending_line.text,
                                      source_mappings |->
                                          b.pending_line.source_mappings,
                                      source_end |-> b.current_source_index,
                                      top |-> row, bottom |-> row]),
                       !.div_stack[Len(b.div_stack)].children =
                           Append(@, StyledText(b.pending_line.text,
                                                b.pending_line.runs))]

\* MarkdownElementBuilder::flush_text; the layout puts line k on row 2k - 1.
flush_text(b) ==
    IF b.pending_line.text = <<>>
    THEN [b EXCEPT !.pending_line = DefaultPendingLine]
    ELSE IF b.div_stack = <<>> THEN BuilderPanic(b)
    ELSE LET row == 2 * (Len(b.rendered_lines) + 1) - 1
         IN  [b EXCEPT !.pending_line = DefaultPendingLine,
                       !.rendered_lines =
                           Append(@, [text |-> b.pending_line.text,
                                      source_mappings |->
                                          b.pending_line.source_mappings,
                                      source_end |-> b.current_source_index,
                                      top |-> row, bottom |-> row]),
                       !.div_stack[Len(b.div_stack)].children =
                           Append(@, StyledText(b.pending_line.text,
                                                b.pending_line.runs))]

\* A push_div that removes the bottom margin of no div.
push_div_keeping_bottom(b, div, range, markdown_end) ==
    LET flushed == flush_text(b)
        top == IF range.start = 0
               THEN [div EXCEPT !.margin.top = Some(0)] ELSE div
    IN  [flushed EXCEPT !.div_stack = Append(@, top)]

\* MarkdownElementBuilder::push_div
push_div(b, div, range, markdown_end) ==
    LET flushed == flush_text(b)
        top == IF range.start = 0
               THEN [div EXCEPT !.margin.top = Some(0)] ELSE div
        bottom == IF range.end = markdown_end
                  THEN [top EXCEPT !.margin.bottom = Some(0)] ELSE top
    IN  [flushed EXCEPT !.div_stack = Append(@, bottom)]

\* A pop_div that drops the popped div instead of making it a child.
pop_div_dropping(b) ==
    LET flushed == flush_text(b)
    IN  IF Len(flushed.div_stack) < 2 THEN BuilderPanic(flushed)
        ELSE [flushed EXCEPT !.div_stack = Pop(@)]

\* MarkdownElementBuilder::pop_div
pop_div(b) ==
    LET flushed == flush_text(b)
        stack == flushed.div_stack
    IN  IF Len(stack) < 2 THEN BuilderPanic(flushed)
        ELSE [flushed EXCEPT
                 !.div_stack =
                     Pop(Pop(stack)) \o
                     <<[stack[Len(stack) - 1] EXCEPT
                           !.children = Append(@, stack[Len(stack)])]>>]

\* MarkdownElementBuilder::push_list
push_list(b, bullet_index) ==
    [b EXCEPT !.list_stack = Append(@, [bullet_index |-> bullet_index])]

\* MarkdownElementBuilder::next_bullet_index: the builder after the call
\* and the value returned.
next_bullet_index(b) ==
    IF b.list_stack = <<>> \/ b.list_stack[Len(b.list_stack)].bullet_index = None
    THEN [builder |-> b, value |-> None]
    ELSE LET item_index == b.list_stack[Len(b.list_stack)].bullet_index[1]
         IN  [builder |-> [b EXCEPT !.list_stack[Len(b.list_stack)].bullet_index
                                        = Some(item_index + 1)],
              value |-> Some(item_index)]

\* A pop_list that leaves the counter of the closed list on the stack.
pop_list_keeping(b) == b

\* MarkdownElementBuilder::pop_list
pop_list(b) == [b EXCEPT !.list_stack = Pop(@)]

\* MarkdownElementBuilder::push_code_block
push_code_block(b, language) == [b EXCEPT !.code_block_stack = Append(@, language)]

\* MarkdownElementBuilder::pop_code_block
pop_code_block(b) == [b EXCEPT !.code_block_stack = Pop(@)]

\* A push_link that puts the link before the ones recorded.
push_link_first(b, destination_url, source_range) ==
    [b EXCEPT !.rendered_links =
                  <<[source_range |-> source_range,
                     destination_url |-> destination_url]>> \o @]

\* MarkdownElementBuilder::push_link
push_link(b, destination_url, source_range) ==
    [b EXCEPT !.rendered_links =
                  Append(@, [source_range |-> source_range,
                             destination_url |-> destination_url])]

\* MarkdownElementBuilder::build: the RenderedText of the RenderedMarkdown.
build(b) ==
    LET flushed == flush_text(b)
    IN  [lines |-> flushed.rendered_lines, links |-> flushed.rendered_links]

\* The calls of push_text made so far in the layout pass.
Pushes(b) ==
    LET count[i \in 0..Len(b.rendered_lines)] ==
            IF i = 0 THEN Len(b.pending_line.source_mappings)
            ELSE count[i - 1] + Len(b.rendered_lines[i].source_mappings)
    IN  count[Len(b.rendered_lines)]

\* A layout pass starts: request_layout makes a new builder.
TextInit ==
    /\ Detached(DefaultSelection)
    /\ builder = Some(NewBuilder)
    /\ last_op = "new"
    /\ call = NoCall
    /\ gesture = NoGesture

\* What a step of the layout pass and a query leave alone.
MarkdownUnchanged ==
    UNCHANGED <<source, selection, pressed_link, autoscroll_request,
                parsed_markdown, should_reparse, pending_parse, tasks, muts,
                gesture, cursor>>

\* A leaf event: its text is pushed at a source offset at or after the end
\* of the previous one, the events being in document order.
PushText ==
    /\ builder # None
    /\ Pushes(builder[1]) < MaxPushes
    /\ \E text \in ChunkTexts, gap \in 0..MaxGap :
           builder' = Some(push_text(builder[1], text,
                                     builder[1].current_source_index + gap))
    /\ last_op' = "push_text"
    /\ UNCHANGED <<listeners, call>>
    /\ MarkdownUnchanged

\* A block boundary (push_div or pop_div) flushes the pending line; with
\* an empty pending line it changes nothing.
FlushText ==
    /\ builder # None
    /\ builder[1].pending_line.text # <<>>
    /\ builder' = Some(flush_text(builder[1]))
    /\ last_op' = "flush_text"
    /\ UNCHANGED <<listeners, call>>
    /\ MarkdownUnchanged

\* The end of the event stream: build consumes the builder.
Build ==
    /\ builder # None
    /\ ~builder[1].panicked
    /\ cursor = Len(parsed_markdown.events)
    /\ listeners' = Some(build(builder[1]))
    /\ builder' = None
    /\ \E debug_assertions \in BOOLEAN :
           last_op' = IF debug_assertions /\ Len(builder[1].div_stack) # 1
                      THEN "panic" ELSE "build"
    /\ UNCHANGED call
    /\ MarkdownUnchanged

\* The source offsets of a rendered text, and one past its end.
SourceOffsets(text) ==
    0..(IF text.lines = <<>> THEN 1
        ELSE text.lines[Len(text.lines)].source_end + 1)

\* A query of the rendered text just built, its input and result recorded.
Query(fn, input, result) ==
    /\ last_op = "build"
    /\ call' = [fn |-> fn, input |-> input, result |-> result]
    /\ last_op' = fn
    /\ UNCHANGED <<listeners, builder>>
    /\ MarkdownUnchanged

\* RenderedText::text_for_range with any range start..end, start <= end.
TextForRange ==
    /\ builder = None
    /\ \E start \in SourceOffsets(listeners[1]) :
       \E end \in {o \in SourceOffsets(listeners[1]) : start <= o} :
           Query("text_for_range", Range(start, end),
                 text_for_range(listeners[1], Range(start, end)))

\* RenderedText::surrounding_word_range with any offset.
SurroundingWordRange ==
    /\ builder = None
    /\ \E source_index \in SourceOffsets(listeners[1]) :
           Query("surrounding_word_range", source_index,
                 surrounding_word_range(listeners[1], source_index))

\* RenderedText::surrounding_line_range with any offset.
SurroundingLineRange ==
    /\ builder = None
    /\ \E source_index \in SourceOffsets(listeners[1]) :
           Query("surrounding_line_range", source_index,
                 surrounding_line_range(listeners[1], source_index))

\* The two lookups of a RenderedLine, one after the other, from the
\* rendered index of an entry of its mapping table.
RoundTrip ==
    /\ builder = None
    /\ \E i \in 1..Len(listeners[1].lines) :
       \E k \in 1..Len(listeners[1].lines[i].source_mappings) :
           LET line == listeners[1].lines[i]
               x == line.source_mappings[k].rendered_index
               source_index == source_index_for_rendered_index(line, x)
           IN  Query("round_trip", [line |-> i, entry |-> k, x |-> x],
                     IF source_index = Panicked THEN Panicked
                     ELSE rendered_index_for_source_index(line, source_index))

\* The two lookups of a RenderedLine the other way round, from any source
\* offset of the line's span: first mapped source index ..= source_end.
SourceRoundTrip ==
    /\ builder = None
    /\ \E i \in 1..Len(listeners[1].lines) :
       \E o \in LineSourceStart(listeners[1].lines[i])
                     ..listeners[1].lines[i].source_end :
           LET line == listeners[1].lines[i]
               rendered_index == rendered_index_for_source_index(line, o)
           IN  Query("source_round_trip", [line |-> i, o |-> o],
                     IF rendered_index = Panicked THEN Panicked
                     ELSE source_index_for_rendered_index(line, rendered_index))

\* Pointer positions over a rendered text: its rows and columns, and one
\* unit beyond them on each axis.
PositionsOver(text) ==
    LET lengths == {Len(text.lines[i].text) : i \in 1..Len(text.lines)}
        bottoms == {text.lines[i].bottom : i \in 1..Len(text.lines)}
        width == IF lengths = {} THEN 0
                 ELSE CHOOSE w \in lengths : \A l \in lengths : l <= w
        height == IF bottoms = {} THEN 0
                  ELSE CHOOSE h \in bottoms : \A l \in bottoms : l <= h
    IN  [x : 0..(width + 1), y : 0..(height + 1)]

\* RenderedText::source_index_for_position with any position.
SourceIndexForPosition ==
    /\ builder = None
    /\ \E position \in PositionsOver(listeners[1]) :
           Query("source_index_for_position", position,
                 source_index_for_position(listeners[1], position))

TextNext ==
    \/ SourceIndexForPosition
    \/ PushText
    \/ FlushText
    \/ Build
    \/ TextForRange
    \/ SurroundingWordRange
    \/ SurroundingLineRange
    \/ RoundTrip
    \/ SourceRoundTrip

TextSpec == TextInit /\ [][TextNext]_vars


\* ----------------------------------------------------------- the layout pass
\* A MarkdownTag or MarkdownTagEnd: its name, the start number of a List,
\* the destination of a Link, the language name of a fenced CodeBlock.
Tag(name) ==
    [name |-> name, bullet_index |-> None, dest_url |-> "", language |-> None]

NoTag == Tag("")

\* An entry of ParsedMarkdown.events: (range, event).
Event(kind, tag, range) == [kind |-> kind, tag |-> tag, range |-> range]

\* The names of the languages the language registry has loaded.
LoadedLanguages == {"rust"}

\* MarkdownElement::load_language: the language registry answers at once.
load_language(name) == IF name \in LoadedLanguages THEN Some(name) ELSE None

\* MarkdownStyle.code_block.text, a text style for code blocks being set.
CodeBlockText == Some("code_block")

\* format!("{}", n): the decimal digits of a number.
RECURSIVE Decimal(_)
Decimal(n) ==
    LET digit == <<"0", "1", "2", "3", "4", "5", "6", "7", "8", "9">>[(n % 10) + 1]
    IN  IF n < 10 THEN <<digit>> ELSE Decimal(n \div 10) \o <<digit>>

\* request_layout: markdown_end
markdown_end(parsed) ==
    IF parsed.events = <<>> THEN 0
    ELSE parsed.events[Len(parsed.events)].range.end

\* request_layout: the arm of MarkdownEvent::Start(tag)
start_tag(b, tag, range, end) ==
    CASE tag.name = "Paragraph" -> push_div(b, Div("paragraph"), range, end)
      [] tag.name = "Heading" ->
             push_div(push_text_style(b, "heading"), Div("heading"), range, end)
      [] tag.name = "BlockQuote" ->
             push_div(push_text_style(b, "block_quote"), Div("block_quote"),
                      range, end)
      [] tag.name = "CodeBlock" ->
             LET language == IF tag.language # None
                             THEN load_language(tag.language[1]) ELSE None
                 styled == IF CodeBlockText # None
                           THEN push_text_style(b, CodeBlockText[1]) ELSE b
             IN  push_div(push_code_block(styled, language), Div("code_block"),
                          range, end)
      [] tag.name = "HtmlBlock" -> push_div(b, Div("html_block"), range, end)
      [] tag.name = "List" ->
             push_div(push_list(b, tag.bullet_index), Div("list"), range, end)
      [] tag.name = "Item" ->
             LET next == next_bullet_index(b)
                 bullet == IF next.value # None
                           THEN Decimal(next.value[1]) \o <<".">>
                           ELSE <<"bullet">>
             IN  push_div(push_div(next.builder, DivWithLabel("item", bullet),
                                   range, end),
                          Div("item_content"), range, end)
      [] tag.name = "Emphasis" -> push_text_style(b, "italic")
      [] tag.name = "Strong" -> push_text_style(b, "bold")
      [] tag.name = "Strikethrough" -> push_text_style(b, "strikethrough")
      [] tag.name = "Link" ->
             IF b.code_block_stack = <<>>
             THEN push_text_style(push_link(b, tag.dest_url, range), "link")
             ELSE b
      [] tag.name = "MetadataBlock" -> b
      [] OTHER -> b

\* request_layout: the arm of MarkdownEvent::End(tag)
end_tag(b, tag) ==
    CASE tag.name = "Paragraph" -> pop_div(b)
      [] tag.name = "Heading" -> pop_text_style(pop_div(b))
      [] tag.name = "BlockQuote" -> pop_div(pop_text_style(b))
      [] tag.name = "CodeBlock" ->
             LET trimmed == trim_trailing_newline(b)
                 popped == IF trimmed.panicked THEN trimmed
                           ELSE pop_code_block(pop_div(trimmed))
             IN  IF CodeBlockText # None THEN pop_text_style(popped)
                 ELSE popped
      [] tag.name = "HtmlBlock" -> pop_div(b)
      [] tag.name = "List" -> pop_div(pop_list(b))
      [] tag.name = "Item" ->
             LET popped == pop_div(b)
             IN  IF popped.panicked THEN popped ELSE pop_div(popped)
      [] tag.name \in {"Emphasis", "Strong", "Strikethrough"} ->
             pop_text_style(b)
      [] tag.name = "Link" ->
             IF b.code_block_stack = <<>> THEN pop_text_style(b) ELSE b
      [] OTHER -> b

\* &parsed_markdown.source[range]
Slice(text, range) == SubSeq(text, range.start + 1, range.end)

\* A loop body that leaves the div of a Rule or HardBreak on the stack.
layout_event_keeping_leaf_div(b, parsed, event) ==
    CASE event.kind = "Start" ->
             start_tag(b, event.tag, event.range, markdown_end(parsed))
      [] event.kind = "End" -> end_tag(b, event.tag)
      [] event.kind \in {"Text", "Html", "InlineHtml", "Code"} ->
             push_text(b, Slice(parsed.source, event.range), event.range.start)
      [] event.kind = "SoftBreak" -> push_text(b, <<" ">>, event.range.start)
      [] event.kind \in {"Rule", "HardBreak"} ->
             push_div(b, Div("rule"), event.range, markdown_end(parsed))
      [] OTHER -> b

\* A loop body that renders the source text of every event it does not
\* know, as it does for Text, Html and InlineHtml.
layout_event_rendering_unsupported(b, parsed, event) ==
    LET range == event.range
        end == markdown_end(parsed)
    IN  CASE event.kind = "Start" -> start_tag(b, event.tag, range, end)
          [] event.kind = "End" -> end_tag(b, event.tag)
          [] event.kind = "Code" ->
                 pop_text_style(push_text(push_text_style(b, "inline_code"),
                                          Slice(parsed.source, range),
                                          range.start))
          [] event.kind = "Rule" ->
                 pop_div(push_div(b, Div("rule"), range, end))
          [] event.kind = "SoftBreak" -> push_text(b, <<" ">>, range.start)
          [] event.kind = "HardBreak" ->
                 pop_div(push_div(b, Div("break"), range, end))
          [] OTHER -> push_text(b, Slice(parsed.source, range), range.start)

\* request_layout: the body of the loop over the events, for one event.
layout_event(b, parsed, event) ==
    LET range == event.range
        end == markdown_end(parsed)
    IN  CASE event.kind = "Start" -> start_tag(b, event.tag, range, end)
          [] event.kind = "End" -> end_tag(b, event.tag)
          [] event.kind \in {"Text", "Html", "InlineHtml"} ->
                 push_text(b, Slice(parsed.source, range), range.start)
          [] event.kind = "Code" ->
                 pop_text_style(push_text(push_text_style(b, "inline_code"),
                                          Slice(parsed.source, range),
                                          range.start))
          [] event.kind = "Rule" ->
                 LET pushed == push_div(b, Div("rule"), range, end)
                 IN  IF pushed.panicked THEN pushed ELSE pop_div(pushed)
          [] event.kind = "SoftBreak" -> push_text(b, <<" ">>, range.start)
          [] event.kind = "HardBreak" ->
                 LET pushed == push_div(b, Div("break"), range, end)
                 IN  IF pushed.panicked THEN pushed ELSE pop_div(pushed)
          [] OTHER -> b

\* ------------------------------------------------ documents and their events
\* A stretch of a document: its source text and the events the parser
\* reports for it, with ranges counted from the start of the stretch.
Raw(text) == [source |-> text, events |-> <<>>]

Leaf(kind, text) ==
    [source |-> text,
     events |-> <<Event(kind, NoTag, Range(0, Len(text)))>>]

\* b after a: the ranges of b's events move by the length of a.
Cat(a, b) ==
    LET Shift(events, by) ==
            [i \in DOMAIN events |->
                [events[i] EXCEPT !.range = Range(@.start + by, @.end + by)]]
    IN  [source |-> a.source \o b.source,
         events |-> a.events \o Shift(b.events, Len(a.source))]

Cat3(a, b, c) == Cat(Cat(a, b), c)

\* Start(tag) and End(tag) around a stretch, both with its whole range.
Wrap(tag, body) ==
    LET whole == Range(0, Len(body.source))
    IN  [source |-> body.source,
         events |-> <<Event("Start", tag, whole)>> \o body.events
                        \o <<Event("End", tag, whole)>>]

Text(text) == Leaf("Text", text)

Link(body) ==
    Wrap([Tag("Link") EXCEPT !.dest_url = "u"],
         Cat3(Raw(<<"[">>), body, Raw(<<"]", "(", "u", ")">>)))

\* The inline stretches of a paragraph: one or two items, or two items
\* with a break between them.  Image is a tag and FootnoteReference an
\* event the element does not support.  Backtick stands for the character
\* U+0060, which a string of this language cannot hold.
Inlines ==
    LET Emphasis(body) ==
            Wrap(Tag("Emphasis"), Cat3(Raw(<<"*">>), body, Raw(<<"*">>)))
        Strong(body) ==
            Wrap(Tag("Strong"),
                 Cat3(Raw(<<"*", "*">>), body, Raw(<<"*", "*">>)))
        Strikethrough(body) ==
            Wrap(Tag("Strikethrough"),
                 Cat3(Raw(<<"~">>), body, Raw(<<"~">>)))
        Image(body) ==
            Wrap(Tag("Image"),
                 Cat3(Raw(<<"!", "[">>), body, Raw(<<"]", "(", "u", ")">>)))
        Backtick == "backtick"
        Code == Cat3(Raw(<<Backtick>>), Leaf("Code", <<"a">>),
                     Raw(<<Backtick>>))
        InlineHtml == Leaf("InlineHtml", <<"<", "i", ">">>)
        FootnoteReference == Leaf("FootnoteReference", <<"[", "^", "a", "]">>)
        SoftBreak == Leaf("SoftBreak", <<"\n">>)
        HardBreak == Leaf("HardBreak", <<"\\", "\n">>)
        InlineItems ==
            {Text(<<"a">>), Text(<<"a", " ", "b">>), Code, InlineHtml,
             FootnoteReference,
             Emphasis(Text(<<"a">>)), Strong(Text(<<"a">>)),
             Strikethrough(Text(<<"a">>)), Link(Text(<<"a">>)),
             Image(Text(<<"a">>)),
             Link(Emphasis(Text(<<"a">>))), Emphasis(Link(Text(<<"a">>))),
             Image(Link(Text(<<"a">>)))}
        SecondItems ==
            {Text(<<"b">>), Code, Emphasis(Text(<<"b">>)),
             Link(Text(<<"b">>)), Image(Text(<<"b">>))}
    IN  InlineItems
            \cup {Cat(x, y) : x \in InlineItems, y \in SecondItems}
            \cup {Cat3(x, break, y) :
                     x \in {Text(<<"a">>), Link(Text(<<"a">>))},
                     break \in {SoftBreak, HardBreak},
                     y \in {Text(<<"b">>), Link(Text(<<"b">>))}}

Paragraph(inline) == Wrap(Tag("Paragraph"), Cat(inline, Raw(<<"\n">>)))

\* CodeBlockKind::Fenced(language); the info string is not spelled out.
FencedCodeBlock(language, lines) ==
    Wrap([Tag("CodeBlock") EXCEPT !.language = Some(language)],
         Cat3(Raw(<<"~", "~", "~", "\n">>), lines,
              Raw(<<"~", "~", "~", "\n">>)))

Rule == Leaf("Rule", <<"-", "-", "-", "\n">>)

\* An item after its marker: a bullet, or the start number of the list.
Item(bullet_index, content) ==
    LET Marker == IF bullet_index = None THEN <<"-", " ">>
                  ELSE Decimal(bullet_index[1]) \o <<".", " ">>
    IN  Wrap(Tag("Item"), Cat(Raw(Marker), content))

List(bullet_index, items) ==
    Wrap([Tag("List") EXCEPT !.bullet_index = bullet_index], items)

\* An item whose text is not wrapped in a paragraph.
TightItem(bullet_index, text) ==
    Item(bullet_index, Cat(Text(text), Raw(<<"\n">>)))

\* Lists of one, two and three items, tight and loose, and a list of two
\* items nested in an item, indented; BulletIndices are the start numbers,
\* none for a bullet list.
Lists ==
    LET BulletIndices == {None, Some(1), Some(9)}
        NestedList(bullet_index) ==
            List(bullet_index,
                 Cat3(TightItem(bullet_index, <<"a">>), Raw(<<" ", " ", " ">>),
                      TightItem(bullet_index, <<"b">>)))
    IN  UNION {
            {List(start, TightItem(start, <<"a">>)),
             List(start, Cat(TightItem(start, <<"a">>),
                             TightItem(start, <<"b">>))),
             List(start, Item(start, Paragraph(Text(<<"a">>)))),
             List(start, Item(start, Paragraph(Link(Text(<<"a">>))))),
             List(start, Cat3(TightItem(start, <<"a">>),
                              TightItem(start, <<"b">>),
                              TightItem(start, <<"a">>)))}
            \cup {List(start,
                       Cat(Item(start,
                                Cat3(Text(<<"a">>),
                                     Raw(<<"\n", " ", " ", " ">>),
                                     NestedList(inner))),
                           TightItem(start, <<"b">>))) :
                     inner \in BulletIndices}
            : start \in BulletIndices}

\* Fenced and indented (CodeBlockKind::Indented) code blocks; CodeLines are
\* the texts of the lines of a code block, one Text event each.
CodeBlocks ==
    LET CodeLines ==
            {Raw(<<>>), Text(<<"a", "\n">>), Text(<<"\n">>),
             Text(<<"a", " ", "\n">>),
             Cat(Text(<<"a", "\n">>), Text(<<"b", "\n">>)),
             Cat(Text(<<"a", "\n">>), Text(<<"\n">>)),
             Cat(Text(<<"a", "\n">>), Text(<<"b">>)), Text(<<"a">>)}
        IndentedCodeBlock(lines) ==
            Wrap(Tag("CodeBlock"), Cat(Raw(<<" ", " ", " ", " ">>), lines))
    IN  {FencedCodeBlock(language, lines) :
             language \in {"", "rust"}, lines \in CodeLines}
            \cup {IndentedCodeBlock(lines) :
                     lines \in {Text(<<"a", "\n">>), Text(<<"a">>)}}

\* Table and TableCell are tags the element does not support.
LeafBlocks ==
    LET Heading(inline) ==
            Wrap(Tag("Heading"),
                 Cat3(Raw(<<"#", " ">>), inline, Raw(<<"\n">>)))
        HtmlBlock ==
            Wrap(Tag("HtmlBlock"), Leaf("Html", <<"<", "p", ">", "\n">>))
        MetadataBlock ==
            Wrap(Tag("MetadataBlock"),
                 Cat3(Raw(<<"-", "-", "-", "\n">>), Text(<<"a", "\n">>),
                      Raw(<<"-", "-", "-", "\n">>)))
        Table ==
            Wrap(Tag("Table"),
                 Cat3(Raw(<<"|">>), Wrap(Tag("TableCell"), Text(<<"a">>)),
                      Raw(<<"|", "\n">>)))
    IN  {Paragraph(inline) : inline \in Inlines}
            \cup {Heading(inline) :
                     inline \in {Text(<<"a">>), Link(Text(<<"a">>))}}
            \cup CodeBlocks
            \cup {HtmlBlock, Rule, MetadataBlock, Table}

Blocks ==
    LET BlockQuote(block) ==
            Wrap(Tag("BlockQuote"), Cat(Raw(<<">", " ">>), block))
    IN  LeafBlocks \cup Lists
            \cup {BlockQuote(block) :
                     block \in {Paragraph(Text(<<"a">>)),
                                Paragraph(Link(Text(<<"a">>))),
                                FencedCodeBlock("", Text(<<"a", "\n">>)),
                                List(None, TightItem(None, <<"a">>)),
                                BlockQuote(Paragraph(Text(<<"a">>)))}}

\* The documents: no text; inline text without a block, as the parser for
\* links only reports it; one block, also followed by a blank line; two
\* blocks and three blocks with blank lines between them.  OuterBlocks are
\* the blocks put before another block.
Documents ==
    LET BlankLine == Raw(<<"\n">>)
        OuterBlocks ==
            {Paragraph(Text(<<"a">>)), Paragraph(Link(Text(<<"a">>))), Rule,
             FencedCodeBlock("", Text(<<"a", "\n">>)),
             List(Some(1), TightItem(Some(1), <<"a">>))}
    IN  {Raw(<<>>)}
            \cup {Text(<<"a">>), Cat(Text(<<"a", " ">>), Link(Text(<<"b">>)))}
            \cup Blocks
            \cup {Cat(block, BlankLine) : block \in Blocks}
            \cup {Cat3(first, BlankLine, block) :
                     first \in OuterBlocks, block \in Blocks}
            \cup {Cat3(Cat(first, BlankLine), Cat(block, BlankLine), last) :
                     first \in {Paragraph(Text(<<"a">>))},
                     block \in Blocks,
                     last \in {Paragraph(Text(<<"b">>)), Rule}}

\* ------------------------------------------------- the layout pass on its own
\* request_layout has made its builder for one of the documents, parsed.
LayoutInit ==
    \E document \in Documents :
        /\ source = document.source
        /\ parsed_markdown = document
        /\ selection = DefaultSelection
        /\ pressed_link = None
        /\ autoscroll_request = None
        /\ should_reparse = FALSE
        /\ pending_parse = None
        /\ tasks = <<>>
        /\ listeners = None
        /\ muts = 0
        /\ cursor = 0
        /\ builder = Some(NewBuilder)
        /\ last_op = "request_layout"
        /\ call = NoCall
        /\ gesture = NoGesture

\* One turn of the loop of request_layout: the next event is consumed.
LayoutEvent ==
    /\ builder # None
    /\ ~builder[1].panicked
    /\ cursor < Len(parsed_markdown.events)
    /\ \E after \in {layout_event(builder[1], parsed_markdown,
                                  parsed_markdown.events[cursor + 1])} :
           /\ builder' = Some(after)
           /\ last_op' = IF after.panicked THEN "panic" ELSE "event"
    /\ cursor' = cursor + 1
    /\ UNCHANGED <<source, selection, pressed_link, autoscroll_request,
                   parsed_markdown, should_reparse, pending_parse, tasks,
                   muts, gesture, listeners, call>>

\* RenderedText::link_for_position with any position.
LinkForPosition ==
    /\ builder = None
    /\ \E position \in PositionsOver(listeners[1]) :
           Query("link_for_position", position,
                 link_for_position(listeners[1], position))

LayoutNext ==
    \/ LayoutEvent
    \/ Build
    \/ LinkForPosition

LayoutSpec == LayoutInit /\ [][LayoutNext]_vars


\* ------------------------------------------------- the text of a code block
\* The most calls of push_text between the Start and the End of a code block.
MaxRunPushes == 3

\* The texts pushed: no text, a letter, a line, a blank line.
RunTexts == {<<>>, <<"a">>, <<"a", "\n">>, <<"\n">>}

\* The builder after Start(CodeBlock): indented, fenced with a language that
\* is not loaded, fenced with one that is and highlights.
RunInit ==
    /\ Detached(DefaultSelection)
    /\ \E language \in {None, Some(""), Some("rust")} :
           builder = Some(start_tag(NewBuilder,
                                    [Tag("CodeBlock") EXCEPT
                                         !.language = language],
                                    Range(0, 0), 0))
    /\ last_op = "request_layout"
    /\ call = NoCall
    /\ gesture = NoGesture

\* push_text with a text that follows the one before it in the source.
RunPushText ==
    /\ builder[1].code_block_stack # <<>>
    /\ Pushes(builder[1]) < MaxRunPushes
    /\ \E text \in RunTexts :
           builder' = Some(push_text(builder[1], text,
                                     builder[1].current_source_index))
    /\ last_op' = "push_text"
    /\ UNCHANGED <<listeners, call>>
    /\ MarkdownUnchanged

\* End(CodeBlock): trim_trailing_newline, then the flush of pop_div.
RunEndCodeBlock ==
    /\ builder[1].code_block_stack # <<>>
    /\ \E after \in {end_tag(builder[1], Tag("CodeBlock"))} :
           /\ builder' = Some(after)
           /\ last_op' = IF after.panicked THEN "panic" ELSE "event"
    /\ UNCHANGED <<listeners, call>>
    /\ MarkdownUnchanged

RunNext ==
    \/ RunPushText
    \/ RunEndCodeBlock

RunSpec == RunInit /\ [][RunNext]_vars

\* ------------------------------------------------------------------ claims
Idle == pending_parse = None /\ AliveTasks(tasks) = {}

\* The task a step of the scheduler finds in flight.
InFlight(id) == id \in AliveTasks(tasks)

\* C1: in every reachable state at most one parse task is alive.
C1_SingleFlight == Cardinality(AliveTasks(tasks)) <= 1

\* A reset to a different text found a task in flight and left one alive.
C1_Witness ==
    /\ last_op = "reset"
    /\ Cardinality(AliveTasks(tasks)) = 1
    /\ \E id \in AliveTasks(tasks) : tasks[id].text = source /\ Len(source) = 1

C4_Completion ==
    [][last_op' = "parsed"
           => /\ \E id \in AliveTasks(tasks) :
                     parsed_markdown' = ParsedMarkdownOf(tasks[id].text)
              /\ ~should_reparse'
              /\ should_reparse
                     => \E id \in DOMAIN tasks' :
                            /\ AliveTasks(tasks') = {id}
                            /\ pending_parse' = Some(id)
                            /\ tasks'[id].text = source
              /\ ~should_reparse
                     => pending_parse' = None /\ tasks' = <<>>]_vars

\* A completion that installed a stale document and spawned the reparse.
C4_Witness ==
    /\ last_op = "parsed"
    /\ pending_parse # None
    /\ parsed_markdown # DefaultParsedMarkdown
    /\ ~should_reparse

\* C5: if the mutations stop and every parse task completes successfully,
\* then from some point on the scheduler is idle and the installed document
\* is a parse of the live source.
C5_NoMutationLost ==
    (<>[][last_op' \notin {"append", "reset", "reset_same"}]_vars)
        => <>[](Idle /\ parsed_markdown.source = source)

\* A stale document is installed while the reparse of the latest source runs.
C5_Witness ==
    /\ last_op = "parsed"
    /\ parsed_markdown.source # source
    /\ \E id \in AliveTasks(tasks) : tasks[id].text = source

C7_ResetSameNoOp ==
    [][last_op' = "reset_same"
           => UNCHANGED <<source, parsed_markdown, should_reparse,
                          pending_parse, tasks, selection,
                          autoscroll_request, pressed_link>>]_vars

\* A reset to the current source with a task in flight, the reparse flag
\* set and a selection made by a drag.
C7_Witness ==
    /\ autoscroll_request # None
    /\ last_op = "reset_same"
    /\ AliveTasks(tasks) # {}
    /\ should_reparse
    /\ selection.start < selection.end

\* C8: whenever the source is empty the parsed document is the default one
\* and no parse task is in flight; a parse request made then spawns none.
C8_EmptySource ==
    source = <<>>
        => /\ parsed_markdown = DefaultParsedMarkdown
           /\ tasks = <<>>
           /\ pending_parse = None
           /\ ~should_reparse

\* A reset to the empty text, and an append of the empty text to it.
C8_Witness == source = <<>> /\ last_op \in {"reset", "append"}

C10_SelectionOrdered == selection.start <= selection.end

\* A press, a drag to the left of the pressed offset and the release.
C10_Witness ==
    /\ selection.reversed
    /\ selection.start < selection.end
    /\ ~selection.pending
    /\ last_op = "mouse_up"

\* C11: from a zero-width, non-reversed selection at offset a, after any
\* sequence of set_head calls ending with the head h, the selection is
\* start = min(a, h), end = max(a, h), reversed = (h < a).
C11_FlipLaw ==
    (last_op = "set_head" /\ gesture.anchor # None)
        => LET a == gesture.anchor[1]
               h == call.head
           IN  /\ selection.start = Min(a, h)
               /\ selection.end = Max(a, h)
               /\ selection.reversed = (h < a)

\* The selection anchored at 10, dragged to 5 and then to 15.
C11_Witness ==
    /\ last_op = "set_head"
    /\ gesture.anchor = Some(10)
    /\ call.before = [start |-> 5, end |-> 10, reversed |-> TRUE,
                       pending |-> FALSE]
    /\ call.head = 15
    /\ selection = [start |-> 10, end |-> 15, reversed |-> FALSE,
                     pending |-> FALSE]

\* C12: for every selection with start <= end and every offset h,
\* set_head(h) leaves tail() unchanged and moves the other edge to h:
\* afterwards start and end are the old tail and h, in order.
C12_TailIsAnchor ==
    last_op = "set_head"
        => LET anchor == tail(call.before)
               h == call.head
           IN  /\ tail(selection) = anchor
               /\ (IF selection.reversed THEN selection.start
                                          ELSE selection.end) = h
               /\ selection.start = Min(anchor, h)
               /\ selection.end = Max(anchor, h)
               /\ selection.pending = call.before.pending

\* set_head on a word selection (not zero-width) that flips its direction.
C12_Witness ==
    /\ last_op = "set_head"
    /\ call.before.start < call.before.end
    /\ ~call.before.reversed
    /\ call.head < call.before.start
    /\ selection.reversed

\* The Markdown after a press inside the element at `position`, dispatched
\* in both phases to the listeners of the last paint.
AfterPress(position, click_count) ==
    LET event == [position |-> position, click_count |-> click_count]
        m1 == mouse_down(Self, listeners[1], TRUE, event, Phases[1])
    IN  mouse_down(m1, listeners[1], TRUE, event, Phases[2])

\* The source offset the listeners of the last paint resolve `position` to.
Resolved(position) == source_index_for_position(listeners[1], position).ix

\* C13: in every reachable state, a press inside the element that is not
\* on a link replaces the selection with the caret at the resolved offset
\* (click count 1), the surrounding word (2) or the surrounding line (3),
\* not reversed and pending; a press on a link leaves the selection as it
\* is and records the link.
C13_Press ==
    (listeners # None /\ last_op # "panic")
        => \A position \in MousePositions, click_count \in 1..3 :
               LET text == listeners[1]
                   after == AfterPress(position, click_count)
                   link == link_for_position(text, position)
                   offset == Resolved(position)
                   range == CASE click_count = 1 -> Range(offset, offset)
                              [] click_count = 2 ->
                                     surrounding_word_range(text, offset)
                              [] click_count = 3 ->
                                     surrounding_line_range(text, offset)
               IN  /\ ~after.panicked
                   /\ IF link # None
                      THEN /\ after.selection = selection
                           /\ after.pressed_link = link
                      ELSE after.selection =
                               [start |-> range.start, end |-> range.end,
                                reversed |-> FALSE, pending |-> TRUE]

\* A double click on the word "ab" of the two-line text.
C13_Witness ==
    /\ last_op = "mouse_down"
    /\ listeners = Some(TwoLineRenderedText)
    /\ selection = [start |-> 0, end |-> 2, reversed |-> FALSE,
                     pending |-> TRUE]

\* C14: a release always ends with pending false; a pointer move changes
\* the selection, by set_head of the resolved offset, only while pending is
\* true, and leaves it as it is otherwise; pending is true only when a
\* press on text inside the element happened since the previous release.
\* A release that panics leaves no state to look at.
C14_Pending ==
    [][/\ last_op' \in {"mouse_up", "open_url"} => ~selection'.pending
       /\ (last_op' \in {"drag", "mouse_move"} /\ ~selection.pending)
              => selection' = selection
       /\ (last_op' \in {"drag", "mouse_move"} /\ selection.pending)
              => \E position \in MousePositions :
                     selection' = set_head(selection, Resolved(position))
       /\ (selection'.pending /\ last_op' # "panic")
              => gesture'.text_press]_vars

\* A move after the release of a drag that selected text.
C14_Witness ==
    /\ last_op = "mouse_move"
    /\ selection.start < selection.end
    /\ ~selection.pending
    /\ autoscroll_request # None

\* Whether a release at `position` opens the URL of the pressed link.
Opens(position) ==
    LET event == [position |-> position, primary |-> FALSE]
        m1 == mouse_up(Self, listeners[1], event, Phases[1])
    IN  opens_url(m1, listeners[1], event, Phases[2])

\* C15 as stated: a release opens a URL exactly when a link was pressed
\* since the previous release, no drag occurred since that press and the
\* release position resolves to the same link; every release clears the
\* pressed link.
C15_Claim ==
    [][/\ last_op' \in {"mouse_up", "open_url"} => pressed_link' = None
       /\ listeners # None
              => \A position \in MousePositions :
                     Opens(position)
                         <=> /\ gesture.link # None
                             /\ ~gesture.dragged
                             /\ link_for_position(listeners[1], position)
                                    = gesture.link]_vars

\* C16: a press outside the hitbox leaves the default selection and no
\* pressed link, whatever the selection was.
C16_PressOutside ==
    [][last_op' = "mouse_down_out"
           => /\ selection' = DefaultSelection
              /\ pressed_link' = None]_vars

\* A press outside after a press on text, a press on the link and a drag.
C16_Witness ==
    /\ last_op = "mouse_down_out"
    /\ gesture.link # None
    /\ gesture.dragged

\* C17: append and the completion of a parse task, successful or failed,
\* leave the selection as it is, and so does a reset to the current source;
\* a reset to a different text leaves the default selection.
C17_SelectionPersists ==
    [][/\ last_op' \in {"append", "parsed", "parse_error", "reset_same"}
              => selection' = selection
       /\ last_op' = "reset" => selection' = DefaultSelection]_vars

\* A reversed selection, made by a drag, after the completion of a parse
\* task that an append had asked to run again.
C17_Witness ==
    /\ last_op = "parsed"
    /\ selection.start < selection.end
    /\ selection.reversed
    /\ AliveTasks(tasks) # {}

\* The rendered substring of line i that lies in `range`: the characters
\* of the line whose source offset is in start..end.
PartInRange(text, range, i) ==
    LET line == text.lines[i]
        inside == {j \in 1..Len(line.text) :
                      LET at == source_index_for_rendered_index(line, j - 1)
                      IN  range.start <= at /\ at < range.end}
        picked == Sorted(inside)
    IN  [k \in 1..Len(picked) |-> line.text[picked[k]]]

\* C18 as stated: text_for_range(range) is the concatenation, in order, of
\* the rendered substrings of exactly the lines whose source extent meets
\* the range, each clamped to its line, with one newline between two
\* consecutive ones however far apart they are in the source; a line that
\* does not meet the range adds neither text nor newline.
C18_Claim ==
    last_op = "text_for_range"
        => LET text == listeners[1]
               range == call.input
               lines == Sorted(LinesInRange(text, range))
               parts == [k \in 1..Len(lines) |->
                            PartInRange(text, range, lines[k])]
           IN  /\ call.result.ok
               /\ call.result.text = Join(parts, <<"\n">>)

\* C19 as stated: surrounding_word_range and surrounding_line_range return
\* a range for every offset, before the first mapped source index, in the
\* gap between two lines, inside a line or past the last line, without a
\* panic; when no line matches the range is offset..offset.
C19_Claim ==
    last_op \in {"surrounding_word_range", "surrounding_line_range"}
        => /\ call.result.start # Panicked
           /\ OwningLine(listeners[1], call.input) = 0
                  => call.result = Range(call.input, call.input)

\* C20: for every entry of a line's mapping table, with rendered index x,
\* rendered_index_for_source_index(source_index_for_rendered_index(x)) = x.
C20_RoundTripAtBreakpoints ==
    last_op = "round_trip" => call.result = call.input.x

\* The second entry of a line whose two texts are two source bytes apart.
C20_Witness ==
    /\ last_op = "round_trip"
    /\ call.input.entry = 2
    /\ LET mappings == listeners[1].lines[call.input.line].source_mappings
       IN  mappings[2].source_index - mappings[1].source_index
               = mappings[2].rendered_index + 2
    /\ call.result = call.input.x

\* C21 as stated: for every rendered line and every source offset o of its
\* span, first mapped source index <= o <= source_end,
\* source_index_for_rendered_index(rendered_index_for_source_index(o)) = o,
\* also when the line has several texts separated by source bytes that are
\* not rendered.
C21_Claim ==
    last_op = "source_round_trip" => call.result = call.input.o

\* The source ranges of the maximal space-free stretches of a line's text:
\* from the rendered position after a space, or the line start, to the next
\* space, or the line end.
WordRanges(line) ==
    {Range(source_index_for_rendered_index(line, p),
           source_index_for_rendered_index(line, n)) :
        <<p, n>> \in {<<p, n>> \in (0..Len(line.text)) \X (0..Len(line.text)) :
                         /\ p <= n
                         /\ \A j \in (p + 1)..n : line.text[j] # " "
                         /\ p = 0 \/ line.text[p] = " "
                         /\ n = Len(line.text) \/ line.text[n + 1] = " "}}

\* C23 as stated: for an offset inside a rendered line, first mapped source
\* index <= offset <= source_end, surrounding_word_range returns the source
\* range of a maximal space-free stretch of the line's text, and the range
\* contains the offset.
C23_Claim ==
    last_op = "surrounding_word_range"
        => LET at == OwningLine(listeners[1], call.input)
           IN  (at # 0 /\ LineSourceStart(listeners[1].lines[at]) <= call.input)
                   => /\ call.result.start # Panicked
                      /\ call.result \in WordRanges(listeners[1].lines[at])
                      /\ call.result.start <= call.input
                      /\ call.input <= call.result.end

\* C24: source_index_for_position never fails; with no lines it is Err(0);
\* for a point strictly between the bottom of line i and the top of line
\* i + 1 it is Err(source_end of line i); for a point below the last line it
\* is Err(source_end of the last line); a point in no line's box gets an
\* Err; and the offset returned, Ok or Err, is 0 or lies in the span of a
\* line, first mapped source index ..= source_end.
C24_PositionLookup ==
    last_op = "source_index_for_position"
        => LET lines == listeners[1].lines
               position == call.input
               result == call.result
           IN  /\ result.ix # Panicked
               /\ lines = <<>> => result = Err(0)
               /\ \A i \in 1..(Len(lines) - 1) :
                      (lines[i].bottom < position.y
                           /\ position.y < lines[i + 1].top)
                          => result = Err(lines[i].source_end)
               /\ (lines # <<>> /\ position.y > lines[Len(lines)].bottom)
                      => result = Err(lines[Len(lines)].source_end)
               /\ (\A i \in 1..Len(lines) :
                       \/ position.y < lines[i].top
                       \/ position.y > lines[i].bottom
                       \/ position.x > Len(lines[i].text))
                      => ~result.ok
               /\ \/ result.ix = 0
                  \/ \E i \in 1..Len(lines) :
                         /\ LineSourceStart(lines[i]) <= result.ix
                         /\ result.ix <= lines[i].source_end

\* A point between two lines that are two source bytes apart: the Err
\* carries the end of the line above.
C24_Witness ==
    /\ last_op = "source_index_for_position"
    /\ Len(listeners[1].lines) = 2
    /\ listeners[1].lines[1].bottom < call.input.y
    /\ call.input.y < listeners[1].lines[2].top
    /\ LineSourceStart(listeners[1].lines[2])
           = listeners[1].lines[1].source_end + 2
    /\ call.result = Err(listeners[1].lines[1].source_end)

\* The lines of the layout pass: the lines flushed so far and the pending
\* line while the builder works, the lines of the rendered text after it.
LinesSoFar ==
    IF builder # None
    THEN {builder[1].rendered_lines[i] :
              i \in 1..Len(builder[1].rendered_lines)}
             \cup (IF builder[1].pending_line.text # <<>>
                   THEN {builder[1].pending_line} ELSE {})
    ELSE IF listeners # None
    THEN {listeners[1].lines[i] : i \in 1..Len(listeners[1].lines)}
    ELSE {}

\* The character of the source a rendered character stands for is the
\* same character, or the line end a soft break renders as a space.
Renders(source_char, rendered_char) ==
    \/ source_char = rendered_char
    \/ source_char = "\n" /\ rendered_char = " "

\* C22: in every line built from a document whose events are in document
\* order, the entries of the mapping table are strictly increasing in both
\* rendered_index and source_index, and the first entry maps rendered index
\* 0 to the source offset of the first character rendered on the line.
C22_MappingsIncreasing ==
    \A line \in LinesSoFar :
        LET mappings == line.source_mappings
        IN  /\ mappings # <<>>
            /\ \A k \in 1..(Len(mappings) - 1) :
                   /\ mappings[k].rendered_index < mappings[k + 1].rendered_index
                   /\ mappings[k].source_index < mappings[k + 1].source_index
            /\ mappings[1].rendered_index = 0
            /\ mappings[1].source_index < Len(parsed_markdown.source)
            /\ Renders(parsed_markdown.source[mappings[1].source_index + 1],
                       line.text[1])

\* A line of two link texts: it starts after the bracket, and the second
\* entry is further in the source than in the rendered text.
C22_Witness ==
    /\ last_op = "build"
    /\ \E line \in LinesSoFar :
           /\ Len(line.source_mappings) = 2
           /\ line.source_mappings[1].source_index = 1
           /\ line.source_mappings[2].source_index
                  > line.source_mappings[2].rendered_index + 1

\* The links recorded by the layout pass: by the builder while it works, in
\* the rendered text after it.
LinksSoFar ==
    IF builder # None THEN builder[1].rendered_links
    ELSE IF listeners # None THEN listeners[1].links
    ELSE <<>>

\* C25: the links recorded from a document are in increasing source order
\* and do not overlap, so a source offset lies in at most one of them;
\* link_for_position returns a link exactly when the point resolves to an
\* Ok offset inside that link's source range, and None when the point
\* resolves to an Err or to an offset in no link.
C25_Links ==
    /\ \A i, j \in 1..Len(LinksSoFar) :
           i < j => /\ LinksSoFar[i].source_range.start
                          < LinksSoFar[j].source_range.start
                    /\ LinksSoFar[i].source_range.end
                          <= LinksSoFar[j].source_range.start
    /\ last_op = "link_for_position"
           => LET found == source_index_for_position(listeners[1], call.input)
                  Holds(link) ==
                      /\ found.ok
                      /\ link.source_range.start <= found.ix
                      /\ found.ix < link.source_range.end
              IN  /\ \A i \in 1..Len(LinksSoFar) :
                         Holds(LinksSoFar[i])
                             <=> call.result = Some(LinksSoFar[i])
                  /\ (\A i \in 1..Len(LinksSoFar) : ~Holds(LinksSoFar[i]))
                         <=> call.result = None

\* A point on the second of two links of a line.
C25_Witness ==
    /\ last_op = "link_for_position"
    /\ Len(LinksSoFar) = 2
    /\ Len(listeners[1].lines) = 1
    /\ call.result = Some(LinksSoFar[2])

\* C26: while the layout pass consumes the events of a well-formed
\* document, with list items, rules, hard breaks and unsupported tags, the
\* block stack is never empty (no pop fails), and when every event is
\* consumed it holds exactly one element, the root.
C26_BlockStack ==
    /\ last_op # "panic"
    /\ builder # None
           => /\ ~builder[1].panicked
              /\ Len(builder[1].div_stack) >= 1
              /\ builder[1].div_stack[1].style = "inner"
              /\ cursor = Len(parsed_markdown.events)
                     => Len(builder[1].div_stack) = 1

\* The end of a document with a paragraph, a list of items and a rule: the
\* root holds the three blocks.
C26_Witness ==
    /\ builder # None
    /\ cursor = Len(parsed_markdown.events)
    /\ \E i \in 1..cursor : parsed_markdown.events[i].tag.name = "Item"
    /\ parsed_markdown.events[cursor].kind = "Rule"
    /\ Len(builder[1].div_stack) = 1
    /\ Len(builder[1].div_stack[1].children) = 3

\* The divs of an element: itself if it is a div, and the divs below it.
RECURSIVE DivsIn(_)
DivsIn(element) ==
    IF element.kind # "div" THEN 0
    ELSE LET below[i \in 0..Len(element.children)] ==
                 IF i = 0 THEN 0
                 ELSE below[i - 1] + DivsIn(element.children[i])
         IN  1 + below[Len(element.children)]

\* The pops of the block stack so far: every popped div is below a div of
\* the stack.  The pushes so far: the popped divs and the ones on the stack
\* above the root.
DivPops(b) ==
    LET below[i \in 0..Len(b.div_stack)] ==
            IF i = 0 THEN 0 ELSE below[i - 1] + DivsIn(b.div_stack[i]) - 1
    IN  below[Len(b.div_stack)]

DivPushes(b) == DivPops(b) + Len(b.div_stack) - 1

\* The events consumed so far that satisfy a condition.
Consumed(Cond(_)) ==
    Cardinality({i \in 1..cursor : Cond(parsed_markdown.events[i])})

BlockTags ==
    {"Paragraph", "Heading", "BlockQuote", "CodeBlock", "HtmlBlock", "List",
     "Item"}

\* C27 as stated: the pushes of the block stack are as many as the Start
\* events consumed, and its pops as many as the End events consumed.
C27_Original ==
    builder # None
        => LET IsStart(event) == event.kind = "Start"
               IsEnd(event) == event.kind = "End"
           IN  /\ DivPushes(builder[1]) = Consumed(IsStart)
               /\ DivPops(builder[1]) = Consumed(IsEnd)

\* C27, amended: the pushes of the block stack are as many as the Start
\* events of block tags consumed, an Item counting twice, plus the Rule and
\* HardBreak events consumed; the pops are as many as the End events of
\* block tags, an Item counting twice, plus the Rule and HardBreak events;
\* the Start and End of an inline tag, of a metadata block and of an
\* unsupported tag push and pop nothing; once every event is consumed
\* there are as many pops as pushes.
C27_PushesAndPops ==
    builder # None
        => LET StartsBlock(event) ==
                   event.kind = "Start" /\ event.tag.name \in BlockTags
               EndsBlock(event) ==
                   event.kind = "End" /\ event.tag.name \in BlockTags
               StartsItem(event) ==
                   event.kind = "Start" /\ event.tag.name = "Item"
               EndsItem(event) ==
                   event.kind = "End" /\ event.tag.name = "Item"
               IsLeafDiv(event) == event.kind \in {"Rule", "HardBreak"}
           IN  /\ DivPushes(builder[1])
                      = Consumed(StartsBlock) + Consumed(StartsItem)
                            + Consumed(IsLeafDiv)
               /\ DivPops(builder[1])
                      = Consumed(EndsBlock) + Consumed(EndsItem)
                            + Consumed(IsLeafDiv)
               /\ cursor = Len(parsed_markdown.events)
                      => DivPops(builder[1]) = DivPushes(builder[1])

\* The end of a document with a paragraph, a list whose item holds a
\* paragraph with a link, and a rule: five Start events, six pushes.
C27_Witness ==
    /\ builder # None
    /\ cursor = Len(parsed_markdown.events)
    /\ cursor > 0
    /\ parsed_markdown.events[cursor].kind = "Rule"
    /\ Cardinality({i \in 1..cursor :
                       parsed_markdown.events[i].kind = "Start"}) = 5
    /\ \E i \in 1..cursor : parsed_markdown.events[i].tag.name = "Link"
    /\ DivPushes(builder[1]) = 6
    /\ DivPops(builder[1]) = 6

\* The divs a turn of the loop pushed: the ones above the stack as it was,
\* or, after a Rule or a HardBreak, the last child of the top.
PushedBy(event, before, after) ==
    LET n == Len(before.div_stack)
    IN  IF event.kind \in {"Rule", "HardBreak"}
        THEN LET children == after.div_stack[n].children
             IN  {children[Len(children)]}
        ELSE {after.div_stack[k] : k \in (n + 1)..Len(after.div_stack)}

C29_TrimOnClose ==
    [][(/\ builder # None /\ builder' # None /\ cursor' = cursor + 1
        /\ parsed_markdown.events[cursor'].kind = "End"
        /\ parsed_markdown.events[cursor'].tag.name = "CodeBlock")
           => LET before == builder[1]
                  after == builder'[1]
                  text == before.pending_line.text
                  runs == before.pending_line.runs
                  trimmed == text # <<>> /\ text[Len(text)] = "\n"
                  kept == IF trimmed THEN SubSeq(text, 1, Len(text) - 1)
                          ELSE text
                  kept_runs == IF trimmed
                               THEN [runs EXCEPT ![Len(runs)].len = @ - 1]
                               ELSE runs
                  top == after.div_stack[Len(after.div_stack)]
                  block == top.children[Len(top.children)]
              IN  /\ ~after.panicked
                  /\ trimmed => runs[Len(runs)].len >= 1
                  /\ after.current_source_index =
                         before.current_source_index - (IF trimmed THEN 1 ELSE 0)
                  /\ IF kept = <<>>
                     THEN after.rendered_lines = before.rendered_lines
                     ELSE LET line == after.rendered_lines[Len(after.rendered_lines)]
                          IN  /\ Len(after.rendered_lines)
                                     = Len(before.rendered_lines) + 1
                              /\ line.text = kept
                              /\ line.source_end = after.current_source_index
                              /\ trimmed =>
                                     parsed_markdown.source[line.source_end + 1]
                                         = "\n"
                              /\ block.children[Len(block.children)]
                                     = StyledText(kept, kept_runs)]_vars

\* A fenced code block of a loaded language with the text "a" and its
\* newline has closed: its line is "a", and the run of the newline is empty.
C29_Witness ==
    /\ builder # None
    /\ cursor > 0
    /\ parsed_markdown.events[cursor].kind = "End"
    /\ parsed_markdown.events[cursor].tag.name = "CodeBlock"
    /\ parsed_markdown.events[cursor].tag.language = Some("rust")
    /\ builder[1].rendered_lines # <<>>
    /\ LET line == builder[1].rendered_lines[Len(builder[1].rendered_lines)]
           top == builder[1].div_stack[Len(builder[1].div_stack)]
           block == top.children[Len(top.children)]
       IN  /\ line.text = <<"a">>
           /\ parsed_markdown.source[line.source_end + 1] = "\n"
           /\ line.source_end = builder[1].current_source_index
           /\ block.children[1].runs[2].len = 0

\* An event that pushes or pops a block.
IsBlockBoundary(event) ==
    \/ event.kind \in {"Start", "End"} /\ event.tag.name \in BlockTags
    \/ event.kind \in {"Rule", "HardBreak"}

LastChild(div) == div.children[Len(div.children)]

\* The block that was on top of a stack of n divs, where it is after the
\* event: on the stack after a push, the last child of the new top after a
\* pop, one level further down after the two pops of an Item.
OldTop(event, after, n) ==
    IF event.kind # "End" THEN after.div_stack[n]
    ELSE IF event.tag.name = "Item"
    THEN LastChild(LastChild(after.div_stack[n - 2]))
    ELSE LastChild(after.div_stack[n - 1])

\* C30: every block boundary flushes the pending line.  After an event that
\* pushes or pops a block, the div of a Rule or HardBreak included, the
\* pending line is empty; a non-empty pending line (trimmed first when a
\* code block closes) has become exactly one RenderedLine with its text and
\* its mapping table, and one text child, after the children it had, of the
\* block that was on top of the stack before the event; an empty pending
\* line adds no line; the lines flushed before are as they were.
C30_FlushAtBoundary ==
    [][(/\ builder # None /\ builder' # None /\ cursor' = cursor + 1
        /\ IsBlockBoundary(parsed_markdown.events[cursor']))
           => LET event == parsed_markdown.events[cursor']
                  before == IF event.kind = "End" /\ event.tag.name = "CodeBlock"
                            THEN trim_trailing_newline(builder[1])
                            ELSE builder[1]
                  after == builder'[1]
                  pending == before.pending_line
                  n == Len(before.div_stack)
                  texts == IF pending.text = <<>> THEN <<>>
                           ELSE <<StyledText(pending.text, pending.runs)>>
                  children == OldTop(event, after, n).children
                  expected == before.div_stack[n].children \o texts
              IN  /\ after.pending_line = DefaultPendingLine
                  /\ Len(after.rendered_lines)
                         = Len(before.rendered_lines) + Len(texts)
                  /\ SubSeq(after.rendered_lines, 1, Len(before.rendered_lines))
                         = before.rendered_lines
                  /\ pending.text # <<>> =>
                         LET line == after.rendered_lines[Len(after.rendered_lines)]
                         IN  /\ line.text = pending.text
                             /\ line.source_mappings = pending.source_mappings
                  /\ IF event.kind \in {"Rule", "HardBreak"}
                     THEN /\ Len(children) = Len(expected) + 1
                          /\ SubSeq(children, 1, Len(expected)) = expected
                          /\ LastChild(OldTop(event, after, n)).kind = "div"
                     ELSE children = expected]_vars

\* A hard break after the text "a" of a paragraph: the paragraph holds the
\* text and the div of the break, and nothing is pending.
C30_Witness ==
    /\ builder # None
    /\ cursor > 0
    /\ parsed_markdown.events[cursor].kind = "HardBreak"
    /\ builder[1].pending_line = DefaultPendingLine
    /\ Len(builder[1].rendered_lines) = 1
    /\ builder[1].rendered_lines[1].text = <<"a">>
    /\ LET top == builder[1].div_stack[Len(builder[1].div_stack)]
       IN  /\ top.style = "paragraph"
           /\ Len(top.children) = 2
           /\ top.children[1].kind = "text"
           /\ top.children[1].text = <<"a">>
           /\ top.children[2].style = "break"

\* The tags request_layout has a Start arm for, the tags it has an End arm
\* for, and the events without a tag it has an arm for.
StartTags ==
    BlockTags \cup {"Emphasis", "Strong", "Strikethrough", "Link",
                    "MetadataBlock"}

EndTags == BlockTags \cup {"Emphasis", "Strong", "Strikethrough", "Link"}

EventKinds ==
    {"Text", "Code", "Html", "InlineHtml", "Rule", "SoftBreak", "HardBreak"}

Unrecognized(event) ==
    \/ event.kind = "Start" /\ event.tag.name \notin StartTags
    \/ event.kind = "End" /\ event.tag.name \notin EndTags
    \/ event.kind \notin {"Start", "End"} \cup EventKinds

\* C31: an unrecognized Start tag, End tag or event leaves the builder as it
\* was: block stack, text-style stack, code-block stack, list stack, pending
\* line, rendered lines, links and source index are the same before and
\* after it, and the loop goes on to the next event without a panic.
C31_UnsupportedSkipped ==
    [][(/\ builder # None /\ builder' # None /\ cursor' = cursor + 1
        /\ Unrecognized(parsed_markdown.events[cursor']))
           => LET before == builder[1]
                  after == builder'[1]
              IN  /\ after.div_stack = before.div_stack
                  /\ after.text_style_stack = before.text_style_stack
                  /\ after.code_block_stack = before.code_block_stack
                  /\ after.list_stack = before.list_stack
                  /\ after.pending_line = before.pending_line
                  /\ after.rendered_lines = before.rendered_lines
                  /\ after.rendered_links = before.rendered_links
                  /\ after.current_source_index = before.current_source_index
                  /\ after = before
                  /\ ~after.panicked
                  /\ last_op' = "event"]_vars

\* The Start of an image after the text "a" of a paragraph has been consumed:
\* the text is still pending, alone, and the paragraph is still open.
C31_Witness ==
    /\ builder # None
    /\ cursor > 0
    /\ last_op = "event"
    /\ parsed_markdown.events[cursor].kind = "Start"
    /\ parsed_markdown.events[cursor].tag.name = "Image"
    /\ builder[1].pending_line.text = <<"a">>
    /\ Len(builder[1].div_stack) = 2
    /\ builder[1].current_source_index = 1

\* The number of lists open after event i of the document.
ListDepth(i) ==
    LET IsList(kind, j) ==
            /\ parsed_markdown.events[j].kind = kind
            /\ parsed_markdown.events[j].tag.name = "List"
    IN  Cardinality({j \in 1..i : IsList("Start", j)})
            - Cardinality({j \in 1..i : IsList("End", j)})

\* The Start event of the list that the item opened by event i is in: the
\* last list opened before it at its depth.
ListOf(i) ==
    LET opened == {j \in 1..i :
                      /\ parsed_markdown.events[j].kind = "Start"
                      /\ parsed_markdown.events[j].tag.name = "List"
                      /\ ListDepth(j) = ListDepth(i)}
    IN  CHOOSE j \in opened : \A other \in opened : other <= j

\* The items opened directly in the list opened by event j, up to event i.
ItemsOf(j, i) ==
    {x \in j..i : /\ parsed_markdown.events[x].kind = "Start"
                  /\ parsed_markdown.events[x].tag.name = "Item"
                  /\ ListDepth(x) = ListDepth(j)}

\* C32: list numbering.  The k-th item opened directly in a list whose
\* start number is n is labelled n + k - 1, whatever lists are nested in
\* the items before it and also after such a nested list has closed; every
\* item of a list without a start number is labelled with a bullet.
C32_ListNumbering ==
    [][(/\ builder # None /\ builder' # None /\ cursor' = cursor + 1
        /\ parsed_markdown.events[cursor'].kind = "Start"
        /\ parsed_markdown.events[cursor'].tag.name = "Item")
           => LET after == builder'[1]
                  item == after.div_stack[Len(after.div_stack) - 1]
                  list == ListOf(cursor')
                  n == parsed_markdown.events[list].tag.bullet_index
                  k == Cardinality(ItemsOf(list, cursor'))
              IN  /\ ~after.panicked
                  /\ item.style = "item"
                  /\ item.children[1].text =
                         IF n = None THEN <<"bullet">>
                         ELSE Decimal(n[1] + k - 1) \o <<".">>]_vars

\* The second item of a list that starts at 9 has been opened after the
\* list nested in its first item was closed: it is labelled 10.
C32_Witness ==
    /\ builder # None
    /\ cursor > 0
    /\ ~builder[1].panicked
    /\ parsed_markdown.events[cursor].kind = "Start"
    /\ parsed_markdown.events[cursor].tag.name = "Item"
    /\ ListDepth(cursor) = 1
    /\ parsed_markdown.events[ListOf(cursor)].tag.bullet_index = Some(9)
    /\ \E i \in 1..cursor :
           /\ parsed_markdown.events[i].kind = "End"
           /\ parsed_markdown.events[i].tag.name = "List"
           /\ ListOf(cursor) < i
    /\ builder[1].div_stack[Len(builder[1].div_stack) - 1].children[1].text
           = <<"1", "0", ".">>

\* C33: completion is one step.  In every state a handler of the UI thread
\* can observe, should_reparse is set only while pending_parse holds a
\* task, and the handle held is of a task of the executor; the step that
\* installs the document of a task also takes that task out of
\* pending_parse and ends it, so no state has a task's document installed
\* with the same task still marked in flight.
C33_AtomicCompletion ==
    /\ [](should_reparse => pending_parse # None)
    /\ [](pending_parse # None => pending_parse[1] \in DOMAIN tasks)
    /\ [][last_op' = "parsed"
              => \E id \in AliveTasks(tasks) :
                     /\ pending_parse = Some(id)
                     /\ parsed_markdown' = ParsedMarkdownOf(tasks[id].text)
                     /\ pending_parse' # Some(id)
                     /\ id \notin DOMAIN tasks'
                     /\ should_reparse
                            => /\ ~should_reparse'
                               /\ pending_parse' # None
                               /\ tasks'[pending_parse'[1]].text = source']_vars

\* A task completed with the reparse flag set: its document is installed,
\* the flag is clear and another task, over the live source, is in flight.
C33_Witness ==
    /\ last_op = "parsed"
    /\ ~should_reparse
    /\ pending_parse # None
    /\ parsed_markdown # DefaultParsedMarkdown
    /\ tasks[pending_parse[1]].text = source
    /\ parsed_markdown.source # source
    /\ Len(parsed_markdown.source) = 1

IsPrefix(a, b) == Len(a) <= Len(b) /\ SubSeq(b, 1, Len(a)) = a

\* C34: in every reachable state the source of the installed document is a
\* prefix of the live source: it is empty, or a snapshot of the source to
\* which only appends were made since.
C34_InstalledIsPrefix == IsPrefix(parsed_markdown.source, source)

\* The document of a snapshot is installed and the source has grown by an
\* append since the snapshot was taken.
C34_Witness ==
    /\ last_op = "parsed"
    /\ parsed_markdown.source # <<>>
    /\ parsed_markdown.source # source
    /\ IsPrefix(parsed_markdown.source, source)
    /\ pending_parse # None

\* C35: a reset to a text different from the source drops the task in
\* flight and clears should_reparse, so the only task left is the one the
\* reset spawned over the new source; in every state a task of the executor
\* is the one pending_parse holds, and a document is installed only by that
\* task, so after such a reset the document is the default one or comes from
\* a snapshot taken at or after the reset.
C35_ResetDropsStale ==
    /\ [](\A id \in DOMAIN tasks : pending_parse = Some(id))
    /\ [][/\ last_op' = "reset"
              => /\ parsed_markdown' = DefaultParsedMarkdown
                 /\ ~should_reparse'
                 /\ \A id \in DOMAIN tasks' :
                        /\ tasks'[id] = [text |-> source', state |-> "running"]
                        /\ source' # source
                 /\ source' # <<>> => DOMAIN tasks' # {}
          /\ last_op' = "parsed"
              => \E id \in DOMAIN tasks :
                     /\ pending_parse = Some(id)
                     /\ parsed_markdown'.source = tasks[id].text]_vars

\* After a reset to a text of two characters: the default document, the
\* flag clear, and one task, over the new source.
C35_Witness ==
    /\ last_op = "reset"
    /\ Len(source) = 2
    /\ parsed_markdown = DefaultParsedMarkdown
    /\ ~should_reparse
    /\ pending_parse # None
    /\ DOMAIN tasks = {pending_parse[1]}
    /\ tasks[pending_parse[1]].text = source

LineSeq ==
    IF builder # None THEN builder[1].rendered_lines
    ELSE IF listeners # None THEN listeners[1].lines
    ELSE <<>>

\* C37: of the lines built from a document whose events are in document
\* order, every one has a text that is not empty and at least one entry in
\* its mapping table, and the lines are ordered and disjoint in the source:
\* the first mapped source index of a line is at most its source_end, which
\* is at most the first mapped source index of the next line.
C37_LinesOrdered ==
    /\ \A i \in 1..Len(LineSeq) :
           /\ LineSeq[i].text # <<>>
           /\ LineSeq[i].source_mappings # <<>>
           /\ LineSeq[i].source_mappings[1].source_index <= LineSeq[i].source_end
    /\ \A i \in 1..(Len(LineSeq) - 1) :
           LineSeq[i].source_end
               <= LineSeq[i + 1].source_mappings[1].source_index

\* A document of three blocks is built: three lines, each ending before
\* the next one starts, the second of them a trimmed code line.
C37_Witness ==
    /\ last_op = "build"
    /\ Len(LineSeq) = 3
    /\ LineSeq[1].source_end < LineSeq[2].source_mappings[1].source_index
    /\ LineSeq[2].source_end < LineSeq[3].source_mappings[1].source_index
    /\ LineSeq[2].source_mappings[1].source_index < LineSeq[2].source_end
    /\ parsed_markdown.source[LineSeq[2].source_end + 1] = "\n"

\* The sum of the lengths of a sequence of runs.
RunsLen(runs) ==
    LET sum[i \in 0..Len(runs)] ==
            IF i = 0 THEN 0 ELSE sum[i - 1] + runs[i].len
    IN  sum[Len(runs)]

\* The texts with their runs that are below an element.
RECURSIVE TextsIn(_)
TextsIn(element) ==
    IF element.kind = "text" THEN {element}
    ELSE IF element.kind # "div" THEN {}
    ELSE UNION {TextsIn(element.children[i]) :
                    i \in 1..Len(element.children)}

\* The text lines of the builder: the flushed ones, and the pending one.
TextsSoFar ==
    UNION {TextsIn(builder[1].div_stack[i]) :
               i \in 1..Len(builder[1].div_stack)}
        \cup {StyledText(builder[1].pending_line.text,
                         builder[1].pending_line.runs)}

\* C38 as stated: whenever a pending line is flushed, the lengths of its
\* runs add up to the length of its text, for any sequence of push_text
\* calls followed by at most one trim_trailing_newline, and no run length
\* goes below zero, which in the code is an integer underflow.
C38_Claim ==
    builder # None
        => /\ ~builder[1].panicked
           /\ \A line \in TextsSoFar :
                  /\ RunsLen(line.runs) = Len(line.text)
                  /\ \A i \in 1..Len(line.runs) : line.runs[i].len >= 0

=============================================================================
